---- MODULE Spec2Model ----
(***************************************************************************)
(* Model of the CWDTP client connection (client/js/cwdtp/conn.js, class    *)
(* WSConn) of colonialwars-client.                                         *)
(*                                                                         *)
(* The connection is a single-threaded, event-driven object: every action  *)
(* below is one task of the browser's event loop (a WebSocket event, a     *)
(* timer callback, the continuation of the async handshake, or a call of   *)
(* the public API), run to completion.  Methods of WSConn are operators    *)
(* from a connection record to a connection record, so that a handler that *)
(* calls disconnect(), which calls _onClose(), is one atomic step.         *)
(***************************************************************************)
EXTENDS Integers, Sequences, FiniteSets, Bags, TLC

VARIABLES
  id,                  \* this.id (NoId is null)
  isAlive,             \* this.isAlive
  connected,           \* this.connected
  pingTimeout,         \* this.pingTimeout: a timer handle, NoTimer is null
  pingTimeoutDuration, \* this.pingTimeoutDuration
  disconnecting,       \* this.disconnecting
  abortedHandshake,    \* this.abortedHandshake
  ws,                  \* this.ws: the WebSocket (readyState, protocol, close)
  hs,                  \* closure of doClientHandshake (position, keys, timer)
  timers,              \* the timers armed by setTimeout and not yet cleared
  listeners,           \* listeners the connection registered on itself
  sent,                \* bag of the frames ws.send transmitted
  emitted,             \* how often each event was emitted to subscribers
  errors,              \* bag of the Error objects emitted with 'error'
  last,                \* what the last task was and what it observed
  received,            \* number of inbound frames so far
  calls,               \* number of public API calls so far
  engine,              \* which Game runs on the connection, if any
  game,                \* the Game of game/game.js with its Player (this.self)
  ecs,                 \* the Game of the ECS client with its world
  now,                 \* what Date.now() returns
  handed,              \* inputNum of each client-action passed to conn.emit
  wire,                \* inputNum of each client-action the transport sent
  step,                \* what the last task of the Game was and observed
  codec,               \* a call of _encodeMsg or _decodeMsg: arguments, result
  issued,              \* the inputs Game._onInput of the ECS client packaged
  frameAt              \* when Player.update ran last; NoFrame before the first

vars == <<id, isAlive, connected, pingTimeout, pingTimeoutDuration,
          disconnecting, abortedHandshake, ws, hs, timers,
          listeners, sent, emitted, errors, last, received, calls>>

----------------------------------------------------------------------------
(* Bounds of the model *)

MaxInbound == 2
MaxCalls == 1

(* Program constants *)

HandshakeTimeoutMs == 30000
CloseTimeoutMs == 30000
DefaultPingTimeout == 30000

CodeAbort == 4000
CodeInvalidProto == 4001
CodeHandshakeTimeout == 4002
CodeCloseTimeout == 4003
CodePingTimeout == 4004

NoId == "null"
NoTimer == 0
NoKey == 0
NoCode == 0
NoFrame == 0

(* Bounds of the game model: the clock, the inputs of a session, the       *)
(* snapshots the ECS Game holds between two updates.                       *)
MaxTime == 3
MaxInputs == 2
MaxQueued == 1

(* opts.pingTimeout as callers may pass it; 0 stands for "not given". *)
PingTimeoutOpts == {0, 10000}

(* The request key the random generator produces, the response keys and   *)
(* connection ids a peer may send ("" and NoKey: the field is missing).    *)
(* A peer may echo the request key, answer its hash, or leave it out.      *)
ReqKeys == {1}
ResKeys == {NoKey, 1, 2}
Cids == {"", "c1", "c2"}
Salt == 1

(* Close code an application passes to disconnect(). *)
UserCode == 1000

Events == {"connect", "disconnect", "error", "pingTimeout",
           "abortingHandshake", "disconnecting", "message", "update"}

(* Event names that start with the reserved prefix 'cwdtp::'. *)
ControlEvents == {"cwdtp::client-hello", "cwdtp::server-hello", "cwdtp::ping",
                  "cwdtp::pong", "cwdtp::close", "cwdtp::close-ack"}

(* Application event names a peer may put in an envelope. *)
AppEvents == {"update", "connect"}

----------------------------------------------------------------------------
(* The framing codec: _encodeMsg and _decodeMsg.                           *)
(*                                                                         *)
(* A JavaScript value is a record of one shape: its kind, and the number,  *)
(* the string or the items that kind has.  An object is the list of its    *)
(* properties in insertion order; an ArrayBuffer, a DataView and a typed   *)
(* array are "binary" values that carry their constructor's name in        *)
(* lower case and their elements (the bytes, for the first two).           *)

Error(code, message) == [code |-> code, message |-> message]

JS(tag, num, str, items) ==
  [tag |-> tag, num |-> num, str |-> str, items |-> items]

Undef == JS("undefined", 0, "", <<>>)
Null == JS("null", 0, "", <<>>)
Bool(b) == JS("boolean", IF b THEN 1 ELSE 0, "", <<>>)
Num(n) == JS("number", n, "", <<>>)
Str(s) == JS("string", 0, s, <<>>)
Arr(items) == JS("array", 0, "", items)
Prop(key, val) == JS("property", 0, key, <<val>>)
Obj(props) == JS("object", 0, "", props)
Binary(kind, elems) ==
  JS("binary", 0, kind, [i \in DOMAIN elems |-> Num(elems[i])])

TYPED_ARRAY_TYPES ==
  {"int8array", "uint8array", "uint8clampedarray", "int16array",
   "uint16array", "int32array", "uint32array", "float32array",
   "float64array"}

VALID_PROTOCOL_META_KEYS == {"req_key", "res_key", "reason", "error", "cid"}

(* Truthiness, typeof, property access and Object.keys. *)
Truthy(v) ==
  CASE v.tag \in {"undefined", "null"} -> FALSE
    [] v.tag \in {"boolean", "number"} -> v.num # 0
    [] v.tag = "string" -> v.str # ""
    [] OTHER -> TRUE

typeof(v) ==
  CASE v.tag \in {"undefined", "boolean", "number", "string"} -> v.tag
    [] OTHER -> "object"

isArray(v) == v.tag = "array"

get(v, key) ==
  IF v.tag = "object" /\ \E i \in DOMAIN v.items : v.items[i].str = key
  THEN LET last_i == CHOOSE i \in DOMAIN v.items :
                       /\ v.items[i].str = key
                       /\ \A j \in DOMAIN v.items : v.items[j].str = key => j <= i
       IN v.items[last_i].items[1]
  ELSE Undef

keys(v) ==
  CASE v.tag = "object" -> {v.items[i].str : i \in DOMAIN v.items}
    [] v.tag = "array" -> {ToString(i - 1) : i \in DOMAIN v.items}
    [] OTHER -> {}

(* The bytes of the buffer behind a binary value, as new Uint8Array(buffer) *)
(* reads them on a little-endian machine: two's complement for the integer *)
(* kinds, IEEE 754 for the float kinds (0 and 1 are the floats in use).    *)
BYTES_PER_ELEMENT(kind) ==
  CASE kind \in {"int16array", "uint16array"} -> 2
    [] kind \in {"int32array", "uint32array", "float32array"} -> 4
    [] kind = "float64array" -> 8
    [] OTHER -> 1

elementBytes(kind, e) ==
  CASE kind = "float32array" ->
         IF e = 0 THEN <<0, 0, 0, 0>> ELSE <<0, 0, 128, 63>>
    [] kind = "float64array" ->
         IF e = 0 THEN <<0, 0, 0, 0, 0, 0, 0, 0>>
         ELSE <<0, 0, 0, 0, 0, 0, 240, 63>>
    [] OTHER ->
         [i \in 1..BYTES_PER_ELEMENT(kind) |-> (e \div (256 ^ (i - 1))) % 256]

RECURSIVE bufferBytes(_, _)
bufferBytes(kind, elems) ==
  IF elems = <<>> THEN <<>>
  ELSE elementBytes(kind, Head(elems).num) \o bufferBytes(kind, Tail(elems))

(* new Constructor(contents): each number converted to the element type. *)
toElement(kind, n) ==
  CASE kind \in {"uint8array", "arraybuffer", "dataview"} -> n % 256
    [] kind = "uint8clampedarray" -> IF n < 0 THEN 0 ELSE IF n > 255 THEN 255 ELSE n
    [] kind = "int8array" -> ((n + 128) % 256) - 128
    [] kind = "uint16array" -> n % 65536
    [] kind = "int16array" -> ((n + 32768) % 65536) - 32768
    [] OTHER -> n

construct(kind, contents) ==
  IF contents.tag = "array"
  THEN JS("binary", 0, kind,
          [i \in DOMAIN contents.items |->
             Num(toElement(kind, contents.items[i].num))])
  ELSE JS("binary", 0, kind, <<>>)

(* The replacer of _encodeMsg, and JSON.stringify with it: the value as    *)
(* the JSON text holds it.                                                 *)
replacer(val) ==
  IF val.tag = "binary"
  THEN Obj(<<Prop("binary", Bool(TRUE)), Prop("type", Str(val.str)),
             Prop("contents", Arr(LET bytes == bufferBytes(val.str, val.items)
                                  IN [i \in DOMAIN bytes |-> Num(bytes[i])]))>>)
  ELSE val

RECURSIVE stringify(_)
stringify(v) ==
  LET r == replacer(v)
  IN CASE r.tag = "array" ->
            Arr([i \in DOMAIN r.items |->
                   IF r.items[i].tag = "undefined" THEN Null
                   ELSE stringify(r.items[i])])
       [] r.tag = "object" ->
            Obj(LET kept == SelectSeq(r.items,
                                      LAMBDA p : p.items[1].tag # "undefined")
                IN [i \in DOMAIN kept |->
                      Prop(kept[i].str, stringify(kept[i].items[1]))])
       [] OTHER -> r

(* The reviver of _decodeMsg, and JSON.parse with it: children first. *)
reviver(val) ==
  IF Truthy(val) /\ Truthy(get(val, "binary"))
  THEN LET type == get(val, "type")
       IN IF type \in {Str("arraybuffer"), Str("dataview")}
          THEN construct(type.str, get(val, "contents"))
          ELSE IF type.tag = "string" /\ type.str \in TYPED_ARRAY_TYPES
          THEN construct(type.str, get(val, "contents"))
          ELSE val
  ELSE val

RECURSIVE parse(_)
parse(v) ==
  CASE v.tag = "array" -> reviver(Arr([i \in DOMAIN v.items |-> parse(v.items[i])]))
    [] v.tag = "object" ->
         reviver(Obj([i \in DOMAIN v.items |->
                        Prop(v.items[i].str, parse(v.items[i].items[1]))]))
    [] OTHER -> reviver(v)

(* A message as the transport hands it over: what it is (a string, an      *)
(* ArrayBuffer, a Uint16Array, ...) and the text it holds, which is JSON   *)
(* or is not.  charCodeAt and fromCharCode are inverse on the 16-bit units *)
(* of a string, so the text is held as it is.                              *)
Payload(type, isJSON, json) == [type |-> type, isJSON |-> isJSON, json |-> json]

toBinary(text) == Payload("uint16array", text.isJSON, text.json)
toString(msg) == [isJSON |-> msg.isJSON, json |-> msg.json]

NoError == Error("", "")

Thrown(err) == [threw |-> TRUE, error |-> err, value |-> Undef]
Returned(v) == [threw |-> FALSE, error |-> NoError, value |-> v]

_encodeMsg(event, meta, data) ==
  LET isObject == Truthy(meta) /\ typeof(meta) = "object"
  IN IF isObject /\ ~(keys(meta) \subseteq VALID_PROTOCOL_META_KEYS)
     THEN Thrown(Error("", "Invalid protocol metadata!"))
     ELSE LET json == stringify(Obj(<<Prop("event", event),
                                      Prop("meta", IF isObject THEN meta ELSE Obj(<<>>)),
                                      Prop("data", data)>>))
          IN Returned(toBinary([isJSON |-> TRUE, json |-> json]))

(* _decodeMsg without the check of the meta keys. *)
_decodeMsg_AnyMeta(msg) ==
  IF msg.type \notin {"string", "arraybuffer", "uint16array"}
  THEN Thrown(Error("", "Invalid message data type!"))
  ELSE LET strData == toString(msg)
       IN IF ~strData.isJSON
          THEN Thrown(Error("", "Unexpected token"))
          ELSE LET parsed == parse(strData.json)
               IN IF ~Truthy(parsed)
                  THEN Thrown(Error("", "Data is non-existent!"))
                  ELSE IF typeof(get(parsed, "event")) # "string"
                  THEN Thrown(Error("", "Event field does not exist!"))
                  ELSE IF \/ ~Truthy(get(parsed, "meta"))
                          \/ typeof(get(parsed, "meta")) # "object"
                  THEN Thrown(Error("", "Metadata does not exist!"))
                  ELSE IF \/ ~Truthy(get(parsed, "data"))
                          \/ ~isArray(get(parsed, "data"))
                  THEN Thrown(Error("", "Data is not an array!"))
                  ELSE Returned(parsed)

_decodeMsg(msg) ==
  IF msg.type \notin {"string", "arraybuffer", "uint16array"}
  THEN Thrown(Error("", "Invalid message data type!"))
  ELSE LET strData == toString(msg)
       IN IF ~strData.isJSON
          THEN Thrown(Error("", "Unexpected token"))
          ELSE LET parsed == parse(strData.json)
               IN IF ~Truthy(parsed)
                  THEN Thrown(Error("", "Data is non-existent!"))
                  ELSE IF typeof(get(parsed, "event")) # "string"
                  THEN Thrown(Error("", "Event field does not exist!"))
                  ELSE IF \/ ~Truthy(get(parsed, "meta"))
                          \/ typeof(get(parsed, "meta")) # "object"
                  THEN Thrown(Error("", "Metadata does not exist!"))
                  ELSE IF ~(keys(get(parsed, "meta")) \subseteq
                              VALID_PROTOCOL_META_KEYS)
                  THEN Thrown(Error("EINVALMETA", "Invalid protocol metadata!"))
                  ELSE IF \/ ~Truthy(get(parsed, "data"))
                          \/ ~isArray(get(parsed, "data"))
                  THEN Thrown(Error("", "Data is not an array!"))
                  ELSE Returned(parsed)

(* A call of the codec: the arguments of _encodeMsg, what it returned, the *)
(* message _decodeMsg was given and what it returned.                      *)
NoPayload == Payload("none", FALSE, Undef)

Call(pc, event, meta, data, msg) ==
  [pc |-> pc, event |-> event, meta |-> meta, data |-> data, msg |-> msg,
   encoded |-> [threw |-> FALSE, error |-> NoError, value |-> NoPayload],
   decoded |-> Returned(Undef)]

NoCall == Call("none", Undef, Undef, Undef, NoPayload)

----------------------------------------------------------------------------
(* Frames *)

Frame(event) ==
  [event |-> event, shape |-> "ok", req_key |-> NoKey, res_key |-> NoKey,
   cid |-> "", hasReason |-> FALSE, reason |-> "", error |-> FALSE,
   data |-> <<>>]

(* An envelope with data. *)
WithData(frame, data) == [frame EXCEPT !.data = data]

ClientHello(reqKey) == [Frame("cwdtp::client-hello") EXCEPT !.req_key = reqKey]

ServerHello(resKey, cid) ==
  [Frame("cwdtp::server-hello") EXCEPT !.res_key = resKey, !.cid = cid]

CloseFrame(reason, wasError) ==
  [Frame("cwdtp::close") EXCEPT !.hasReason = TRUE, !.reason = reason,
                                !.error = wasError]

(* Frames on which _decodeMsg throws: shape says why. *)
BadFrame(shape) == [Frame("") EXCEPT !.shape = shape]

(* expected = toBase64(hash(toBinary(reqKey + SALT))): a function of the   *)
(* request key that is not the request key itself.                         *)
expectedKey(reqKey) == 1 + ((reqKey + Salt - 1) % 2)

Inbound ==
  {ServerHello(expectedKey(k), c) : k \in ReqKeys, c \in Cids}
  \cup {ServerHello(k, "c1") : k \in ResKeys}
  \cup {Frame("cwdtp::ping"), Frame("cwdtp::close-ack")}
  \cup {CloseFrame("bye", e) : e \in BOOLEAN}
  \cup {WithData(Frame("cwdtp::close"), <<Str("now")>>)}
  \cup {WithData(Frame(e), <<Str("state"), Num(1)>>) : e \in AppEvents}
  \cup {BadFrame("malformed"), BadFrame("invalidMeta")}

(* Frames that are JSON and lack a part of the envelope: the event, the    *)
(* meta, an array as data.                                                 *)
Garbled == {BadFrame("noEvent"), BadFrame("noMeta"), BadFrame("noData")}

(* e.data of the 'message' event a frame arrives with: the meta holds the  *)
(* fields the frame has, a frame of shape "invalidMeta" one more; a        *)
(* "malformed" frame is text that is not JSON.                             *)
MetaOf(frame) ==
  Obj((IF frame.req_key # NoKey THEN <<Prop("req_key", Num(frame.req_key))>>
       ELSE <<>>)
      \o (IF frame.res_key # NoKey THEN <<Prop("res_key", Num(frame.res_key))>>
          ELSE <<>>)
      \o (IF frame.cid # "" THEN <<Prop("cid", Str(frame.cid))>> ELSE <<>>)
      \o (IF frame.hasReason THEN <<Prop("reason", Str(frame.reason))>> ELSE <<>>)
      \o (IF frame.error THEN <<Prop("error", Bool(TRUE))>> ELSE <<>>)
      \o (IF frame.shape = "invalidMeta" THEN <<Prop("foo", Num(1))>> ELSE <<>>))

MessageData(frame) ==
  IF frame.shape = "malformed" THEN Payload("arraybuffer", FALSE, Undef)
  ELSE Payload("arraybuffer", TRUE,
               Obj((IF frame.shape = "noEvent" THEN <<>>
                    ELSE <<Prop("event", Str(frame.event))>>)
                   \o (IF frame.shape = "noMeta" THEN <<>>
                       ELSE <<Prop("meta", MetaOf(frame))>>)
                   \o <<Prop("data", IF frame.shape = "noData" THEN Obj(<<>>)
                                     ELSE Arr(frame.data))>>))

(* this._decodeMsg(data) for each frame that may arrive. *)
decodedMsg == [frame \in Inbound \cup Garbled |-> _decodeMsg(MessageData(frame))]

----------------------------------------------------------------------------
(* The connection as one record, and the methods of WSConn on it *)

self ==
  [id |-> id, isAlive |-> isAlive, connected |-> connected,
   pingTimeout |-> pingTimeout, pingTimeoutDuration |-> pingTimeoutDuration,
   disconnecting |-> disconnecting, abortedHandshake |-> abortedHandshake,
   ws |-> ws, hs |-> hs, timers |-> timers,
   listeners |-> listeners, sent |-> sent, emitted |-> emitted,
   errors |-> errors, last |-> last, received |-> received, calls |-> calls]

(* The connection after a task that left it as r. *)
Assign(r) ==
  /\ id' = r.id
  /\ isAlive' = r.isAlive
  /\ connected' = r.connected
  /\ pingTimeout' = r.pingTimeout
  /\ pingTimeoutDuration' = r.pingTimeoutDuration
  /\ disconnecting' = r.disconnecting
  /\ abortedHandshake' = r.abortedHandshake
  /\ ws' = r.ws
  /\ hs' = r.hs
  /\ timers' = r.timers
  /\ listeners' = r.listeners
  /\ sent' = r.sent
  /\ emitted' = r.emitted
  /\ errors' = r.errors
  /\ last' = r.last
  /\ received' = r.received
  /\ calls' = r.calls

(* A task of the connection: nothing of a Game is touched. *)
Commit(r) ==
  /\ Assign(r)
  /\ UNCHANGED <<engine, game, ecs, now, handed, wire, step, codec, issued, frameAt>>

(* What a task records about itself. *)
Task(op, frame) ==
  [op |-> op, frame |-> frame, force |-> FALSE, threw |-> FALSE,
   armedAtDisconnect |-> {}, sentAtDisconnect |-> 0, onCloseRuns |-> 0,
   dispatched |-> <<>>]

Begin(c, op, frame) == [c EXCEPT !.last = Task(op, frame)]

(* setTimeout / clearTimeout.  setTimeout returns a handle that is larger  *)
(* than every handle still armed or still held by the connection.          *)
Max(S) == CHOOSE x \in S : \A y \in S : y <= x

nextTimer(c) ==
  1 + Max({NoTimer, c.pingTimeout, c.hs.handshakeTimeout}
          \cup {t.id : t \in c.timers}
          \cup {c.listeners.closeAck[i].closeTimeout :
                  i \in DOMAIN c.listeners.closeAck})

setTimeout(c, kind) ==
  [c EXCEPT !.timers = @ \cup {[id |-> nextTimer(c), kind |-> kind]}]

clearTimeout(c, handle) ==
  [c EXCEPT !.timers = {t \in @ : t.id # handle}]

(* The listener the constructor registers for 'connect'. *)
onConnect(c) == [c EXCEPT !.isAlive = TRUE, !.listeners.onConnect = FALSE]

(* EventEmitter.prototype.emit: count the event for the subscribers and    *)
(* run the listeners the connection itself registered for it.              *)
_emit(c, event) ==
  LET c1 == [c EXCEPT !.emitted[event] = @ + 1]
  IN IF event = "connect" /\ c1.listeners.onConnect THEN onConnect(c1) ELSE c1

emitError(c, err) == _emit([c EXCEPT !.errors = @ (+) SetToBag({err})], "error")

(* WebSocket.send: throws while CONNECTING, transmits while OPEN, and      *)
(* silently discards the data once the socket is CLOSING or CLOSED.        *)
wsSend(c, frame) ==
  IF c.ws.readyState = "OPEN"
  THEN [c EXCEPT !.sent = @ (+) SetToBag({frame})] ELSE c

(* WebSocket.close: starts the closing handshake unless already closing.   *)
wsClose(c, code) ==
  LET c1 == [c EXCEPT !.ws.closeCalls = @ + 1]
  IN IF c.ws.readyState \in {"CLOSING", "CLOSED"} THEN c1
     ELSE [c1 EXCEPT !.ws.readyState = "CLOSING", !.ws.closeCode = code]

_onClose(c) ==
  LET c1 == clearTimeout(c, c.pingTimeout)
      c2 == [c1 EXCEPT !.pingTimeout = NoTimer, !.isAlive = FALSE,
                       !.connected = FALSE,
                       !.last.armedAtDisconnect = {t.kind : t \in c1.timers},
                       !.last.sentAtDisconnect = BagCardinality(c1.sent),
                       !.last.onCloseRuns = @ + 1]
  IN _emit(c2, "disconnect")

disconnect(c, force, code, reason, wasError) ==
  LET c1 == _emit([c EXCEPT !.disconnecting = TRUE], "disconnecting")
  IN IF force
     THEN wsClose(_onClose(c1), code)
     ELSE LET closeTimeout == nextTimer(c1)
              c2 == setTimeout(c1, "close")
          IN IF c2.ws.readyState = "CONNECTING"
             THEN [c2 EXCEPT !.last.threw = TRUE]
             ELSE LET c3 == wsSend(c2, CloseFrame(reason, wasError))
                  IN [c3 EXCEPT !.listeners.closeAck =
                        Append(@, [closeTimeout |-> closeTimeout, code |-> code])]

abortHandshake(c, reason) ==
  LET c1 == _emit(c, "abortingHandshake")
      c2 == disconnect(c1, FALSE, CodeAbort, reason, TRUE)
  IN [c2 EXCEPT !.abortedHandshake = TRUE]

(* clientHeartbeat without its clearTimeout. *)
clientHeartbeat_NoClear(c) ==
  [setTimeout(c, "ping") EXCEPT !.pingTimeout = nextTimer(c)]

clientHeartbeat(c) ==
  LET c1 == clearTimeout(c, c.pingTimeout)
  IN [setTimeout(c1, "ping") EXCEPT !.pingTimeout = nextTimer(c1)]

pong(c) == wsSend(c, Frame("cwdtp::pong"))

(* The 'cwdtp::server-hello' listener doClientHandshake registers. *)
serverHelloHandler(c, msg) ==
  LET c1 == [clearTimeout(c, c.hs.handshakeTimeout)
               EXCEPT !.hs.handshakeTimeout = NoTimer]
  IN IF msg.res_key # NoKey
     THEN IF msg.res_key # c1.hs.expected
          THEN abortHandshake(c1, "Invalid response key!")
          ELSE IF msg.cid = ""
          THEN abortHandshake(c1, "No connection ID received!")
          ELSE _emit([c1 EXCEPT !.id = msg.cid, !.connected = TRUE], "connect")
     ELSE abortHandshake(c1, "Invalid server handshake response!")

(* The 'cwdtp::close' listener with _onClose ahead of the close-ack. *)
closeHandler_AckAfter(c, msg) ==
  LET c1 == _emit(c, "disconnecting")
  IN IF msg.hasReason
     THEN LET c2 == IF msg.error THEN emitError(c1, Error("", msg.reason))
                    ELSE c1
          IN wsSend(_onClose(c2), Frame("cwdtp::close-ack"))
     ELSE c1

(* The 'cwdtp::close' listener _init registers. *)
closeHandler(c, msg) ==
  LET c1 == _emit(c, "disconnecting")
  IN IF msg.hasReason
     THEN LET c2 == IF msg.error THEN emitError(c1, Error("", msg.reason))
                    ELSE c1
          IN _onClose(wsSend(c2, Frame("cwdtp::close-ack")))
     ELSE c1

(* The 'cwdtp::ping' listener _init registers. *)
pingHandler(c) == pong(clientHeartbeat(c))

(* onCloseAck without its clearTimeout. *)
onCloseAck_NoClear(c, l) ==
  LET c2 == [c EXCEPT !.listeners.closeAck = SelectSeq(@, LAMBDA x : x # l)]
  IN wsClose(_onClose(c2), l.code)

(* One onCloseAck listener of disconnect(false, ...). *)
onCloseAck(c, l) ==
  LET c1 == clearTimeout(c, l.closeTimeout)
      c2 == [c1 EXCEPT !.listeners.closeAck = SelectSeq(@, LAMBDA x : x # l)]
  IN wsClose(_onClose(c2), l.code)

(* Emitting 'cwdtp::close-ack' runs every onCloseAck listener registered   *)
(* when the event is emitted, in the order of registration.                *)
RECURSIVE closeAckHandler(_, _)
closeAckHandler(c, ls) ==
  IF ls = <<>> THEN c ELSE closeAckHandler(onCloseAck(c, Head(ls)), Tail(ls))

(* What _emit(parsed.event, ...) was called with. *)
Dispatch(event, args) == [event |-> event, args |-> args]

Internal(parsed) ==
  Obj(<<Prop("isInternal", Bool(TRUE)), Prop("meta", get(parsed, "meta")),
        Prop("data", Null)>>)

(* The dispatch of _onMessage that leaves the data in what the listeners   *)
(* of a control event receive.                                             *)
dispatchParsed_InternalData(c, parsed, frame) ==
  LET event == get(parsed, "event").str
  IN IF event \in ControlEvents
     THEN LET c2 == [c EXCEPT !.last.dispatched =
                       Append(@, Dispatch(event, <<parsed>>))]
          IN CASE event = "cwdtp::server-hello" /\ c2.hs.pc = "sent" ->
                    serverHelloHandler(c2, frame)
               [] event = "cwdtp::close" -> closeHandler(c2, frame)
               [] event = "cwdtp::ping" -> pingHandler(c2)
               [] event = "cwdtp::close-ack" ->
                    closeAckHandler(c2, c2.listeners.closeAck)
               [] OTHER -> c2
     ELSE _emit([c EXCEPT !.last.dispatched =
                   Append(@, Dispatch(event, get(parsed, "data").items))],
                event)

(* The dispatch of _onMessage, once _decodeMsg has returned: the listeners *)
(* of the connection for a control event read the meta from the frame.     *)
dispatchParsed(c, parsed, frame) ==
  LET event == get(parsed, "event").str
  IN IF event \in ControlEvents
     THEN LET c2 == [c EXCEPT !.last.dispatched =
                       Append(@, Dispatch(event, <<Internal(parsed)>>))]
          IN CASE event = "cwdtp::server-hello" /\ c2.hs.pc = "sent" ->
                    serverHelloHandler(c2, frame)
               [] event = "cwdtp::close" -> closeHandler(c2, frame)
               [] event = "cwdtp::ping" -> pingHandler(c2)
               [] event = "cwdtp::close-ack" ->
                    closeAckHandler(c2, c2.listeners.closeAck)
               [] OTHER -> c2
     ELSE _emit([c EXCEPT !.last.dispatched =
                   Append(@, Dispatch(event, get(parsed, "data").items))],
                event)

(* _onMessage that force-closes the connection on a frame it cannot decode. *)
_onMessage_CloseOnError(c, frame) ==
  LET c1 == _emit(c, "message")
      decoded == decodedMsg[frame]
  IN IF decoded.threw
     THEN emitError(disconnect(c1, TRUE, CodeAbort, "Invalid frame", TRUE),
                    Error("", "Failed to parse message! Error is: "
                                \o decoded.error.message))
     ELSE dispatchParsed(c1, decoded.value, frame)

(* _onMessage that returns on a frame it cannot decode without an 'error'. *)
_onMessage_Silent(c, frame) ==
  LET c1 == _emit(c, "message")
      decoded == decodedMsg[frame]
  IN IF decoded.threw THEN c1
     ELSE dispatchParsed(c1, decoded.value, frame)

_onMessage(c, frame) ==
  LET c1 == _emit(c, "message")
      decoded == decodedMsg[frame]
  IN IF decoded.threw
     THEN emitError(c1, Error("", "Failed to parse message! Error is: "
                                    \o decoded.error.message))
     ELSE dispatchParsed(c1, decoded.value, frame)

(* The part of doClientHandshake that runs once the random request key and *)
(* its hash are there, and the clientHeartbeat() _onOpen chains to it.     *)
doClientHandshake(c, reqKey) ==
  LET c1 == [c EXCEPT !.hs.reqKey = reqKey, !.hs.expected = expectedKey(reqKey)]
      c2 == wsSend(c1, ClientHello(reqKey))
      c3 == [setTimeout(c2, "handshake")
               EXCEPT !.hs.handshakeTimeout = nextTimer(c2), !.hs.pc = "sent"]
  IN clientHeartbeat(c3)

(* _onOpen without a look at the negotiated subprotocol. *)
_onOpen_AnyProtocol(c) == [c EXCEPT !.hs.pc = "pending"]

_onOpen(c) ==
  IF c.ws.protocol # "pow.cwdtp"
  THEN emitError(disconnect(c, TRUE, CodeInvalidProto,
                            "Invalid negotiated protocol", TRUE),
                 Error("EINVALPROTO", "Invalid negotiated protocol!"))
  ELSE [c EXCEPT !.hs.pc = "pending"]

(* emit(event, ...data) of the public API. *)
emit(c, event) ==
  IF ~c.connected THEN [c EXCEPT !.last.threw = TRUE]
  ELSE wsSend(c, Frame(event))

(* The handshake timer's callback with a graceful disconnect. *)
handshakeTimeoutCallback_Graceful(c) ==
  LET c1 == disconnect(c, FALSE, CodeHandshakeTimeout, "Handshake timed out", TRUE)
      c2 == emitError(c1, Error("EHSTIMEOUT", "Handshake timeout"))
  IN [c2 EXCEPT !.abortedHandshake = TRUE]

(* Timer callbacks *)
handshakeTimeoutCallback(c) ==
  LET c1 == disconnect(c, TRUE, CodeHandshakeTimeout, "Handshake timed out", TRUE)
      c2 == emitError(c1, Error("EHSTIMEOUT", "Handshake timeout"))
  IN [c2 EXCEPT !.abortedHandshake = TRUE]

(* The heartbeat timer's callback with a graceful disconnect. *)
pingTimeoutCallback_Graceful(c) ==
  _emit(disconnect(c, FALSE, CodePingTimeout, "Ping timeout", TRUE), "pingTimeout")

pingTimeoutCallback(c) ==
  _emit(disconnect(c, TRUE, CodePingTimeout, "Ping timeout", TRUE), "pingTimeout")

(* The close timer's callback without its 'error' event. *)
closeTimeoutCallback_NoError(c) == _onClose(wsClose(c, CodeCloseTimeout))

closeTimeoutCallback(c) ==
  emitError(_onClose(wsClose(c, CodeCloseTimeout)),
            Error("ECLOSETIMEOUT", "Closing handshake timed out"))

(* Duration of a timer, and the order in which the browser runs timers: a  *)
(* timer waits for every timer that was started before it with a duration  *)
(* that is not longer.  The request key and its hash are there long before *)
(* any timeout of the connection elapses.                                  *)
Duration(c, t) ==
  CASE t.kind = "handshake" -> HandshakeTimeoutMs
    [] t.kind = "close" -> CloseTimeoutMs
    [] t.kind = "ping" -> c.pingTimeoutDuration

CanFire(c, t) ==
  /\ t \in c.timers
  /\ c.hs.pc # "pending"
  /\ \A u \in c.timers : ~(u.id < t.id /\ Duration(c, u) <= Duration(c, t))

Fired(c, t) == [c EXCEPT !.timers = @ \ {t}]

----------------------------------------------------------------------------
(* The game client.  Numbers that may have a fraction (coordinates,        *)
(* speeds, displacements) are counted in units of 1/Den, so that Math.floor *)
(* is not the identity; times are whole milliseconds.                      *)

Den == 2

SpeedOpts == {3}

(* mapConfig.worldLimits, in pixels. *)
WorldLimits == [x |-> 2, y |-> 1]

NoInput == [none |-> TRUE]
NoPlayer == [none |-> TRUE]

Vec(x, y) == [x |-> x, y |-> y]

(* DirectionState: the four direction keys as independent booleans. *)
Dir(up, down, left, right) ==
  [up |-> up, down |-> down, left |-> left, right |-> right]

Directions == {Dir(FALSE, TRUE, FALSE, TRUE), Dir(TRUE, TRUE, TRUE, TRUE)}

(* PlayerInput, as Game._onInput packages it. *)
Input(inputNum, timestamp, direction) ==
  [inputNum |-> inputNum, timestamp |-> timestamp, direction |-> direction]

(* PlayerStats of an 'update' message: parsed.self. *)
Snapshot(position, velocity, lastProcessedInput, speed) ==
  [position |-> position, velocity |-> velocity,
   lastProcessedInput |-> lastProcessedInput, speed |-> speed]

Snapshots ==
  {Snapshot(pos, vel, n, s) :
     pos \in {Vec(0, 0), Vec(Den, Den)},
     vel \in {Vec(1, 0)},
     n \in 0..MaxInputs,
     s \in SpeedOpts}

(* A snapshot that lacks a field, and the snapshots a peer may send that   *)
(* lack position, velocity or lastProcessedInput.                          *)
Without(state, field) == [f \in DOMAIN state \ {field} |-> state[f]]

Lacks(state, field) == field \notin DOMAIN state

Lacking ==
  {Without(Snapshot(Vec(Den, Den), Vec(1, 0), 0, s), field) :
     field \in {"position", "velocity", "lastProcessedInput"},
     s \in SpeedOpts}

(* What reading a field gives: undefined, or the number it holds. *)
Undefined == [defined |-> FALSE, value |-> 0]
Defined(n) == [defined |-> TRUE, value |-> n]

(* state.lastProcessedInput, and a <= with it on the right: false when it  *)
(* is undefined.                                                           *)
lastProcessedInputOf(state) ==
  IF Lacks(state, "lastProcessedInput") THEN Undefined
  ELSE Defined(state.lastProcessedInput)

LessOrEqual(a, b) == b.defined /\ a <= b.value

(* The snapshots offered to the ECS client: it reads neither the speed     *)
(* after the first one nor self.lastProcessedInput.                        *)
EcsSnapshots == {s \in Snapshots : s.lastProcessedInput \in {0, MaxInputs}}

(* Vector2D *)
zero == Vec(0, 0)
fromObject(o) == Vec(o.x, o.y)
add(v, w) == Vec(v.x + w.x, v.y + w.y)
scale(v, k) == Vec(v.x * k, v.y * k)
floorAxes(v) == Vec(Den * (v.x \div Den), Den * (v.y \div Den))

(* number-utils: bind a number to a minimum and a maximum. *)
bind(val, min, max) ==
  LET lo == IF min > max THEN max ELSE min
      hi == IF min > max THEN min ELSE max
  IN IF val < lo THEN lo ELSE IF val > hi THEN hi ELSE val

(* BoundEntity.boundToBounds: both axes bound to the world. *)
boundToBounds(p) ==
  [p EXCEPT !.position = Vec(bind(@.x, p.worldBounds.x.MIN, p.worldBounds.x.MAX),
                             bind(@.y, p.worldBounds.y.MIN, p.worldBounds.y.MAX))]

(* Player (game/player.js): operators from a player record to a player.   *)
_getVelocity(p, data) ==
  LET d == data.basic.directionData
      v1 == IF d.up THEN add(zero, Vec(0, -p.speed))
            ELSE IF d.down THEN add(zero, Vec(0, p.speed)) ELSE zero
  IN IF d.left THEN add(v1, Vec(-p.speed, 0))
     ELSE IF d.right THEN add(v1, Vec(p.speed, 0)) ELSE v1

(* _update without boundToBounds. *)
_update_NoBound(p, deltaTime) ==
  [p EXCEPT !.position = add(@, floorAxes(scale(p.velocity, deltaTime)))]

(* _update without Vector2D.floorAxes. *)
_update_NoFloor(p, deltaTime) ==
  boundToBounds([p EXCEPT !.position = add(@, scale(p.velocity, deltaTime))])

_update(p, deltaTime) ==
  boundToBounds([p EXCEPT !.position =
                   add(@, floorAxes(scale(p.velocity, deltaTime)))])

updateVelocity(p, input) == [p EXCEPT !.velocity = _getVelocity(p, input)]

(* The while loop of acceptAuthoritarianState over its local array, the    *)
(* inputs spliced out of this.unprocessedInputs.                           *)
RECURSIVE reconcile(_, _, _)
reconcile(p, state, unprocessedInputs) ==
  IF unprocessedInputs = <<>> THEN p
  ELSE LET pending == Head(unprocessedInputs)
       IN IF LessOrEqual(pending.inputNum, lastProcessedInputOf(state))
          THEN reconcile([p EXCEPT !.lastInputProcessTime = pending.timestamp],
                         state, Tail(unprocessedInputs))
          ELSE LET p1 == updateVelocity(
                           p, [basic |-> [directionData |-> pending.direction]])
                   deltaTime == pending.timestamp - p1.lastInputProcessTime
                   p2 == [p1 EXCEPT !.lastInputProcessTime = pending.timestamp]
               IN reconcile(_update(p2, deltaTime), state,
                            Tail(unprocessedInputs))

(* acceptAuthoritarianState that leaves the velocity as it is. *)
acceptAuthoritarianState_KeepVelocity(p, state) ==
  IF Lacks(state, "position") THEN p
  ELSE IF Lacks(state, "velocity")
  THEN [p EXCEPT !.position = fromObject(state.position)]
  ELSE LET p1 == [p EXCEPT !.position = fromObject(state.position)]
           unprocessedInputs == p1.unprocessedInputs
       IN reconcile([p1 EXCEPT !.unprocessedInputs = <<>>], state,
                    unprocessedInputs)

(* Vector2D.fromObject of a field the snapshot lacks throws: the call ends *)
(* there, with the assignments made before it.                             *)
acceptThrows(state) == Lacks(state, "position") \/ Lacks(state, "velocity")

acceptAuthoritarianState(p, state) ==
  IF Lacks(state, "position") THEN p
  ELSE IF Lacks(state, "velocity")
  THEN [p EXCEPT !.position = fromObject(state.position)]
  ELSE LET p1 == [p EXCEPT !.position = fromObject(state.position),
                           !.velocity = fromObject(state.velocity)]
           unprocessedInputs == p1.unprocessedInputs
       IN reconcile([p1 EXCEPT !.unprocessedInputs = <<>>], state,
                    unprocessedInputs)

(* addInputToQueue that puts the input at the head of the queue. *)
addInputToQueue_Unshift(p, input) ==
  [p EXCEPT !.unprocessedInputs = <<input>> \o @]

addInputToQueue(p, input) == [p EXCEPT !.unprocessedInputs = Append(@, input)]

(* new Player(options), then init() as Player.create calls it. *)
Player(options) ==
  [speed |-> options.speed, position |-> options.position,
   worldBounds |-> options.worldBounds, velocity |-> zero,
   lastInputProcessTime |-> 0, lastUpdateTime |-> 0,
   unprocessedInputs |-> <<>>, pendingInput |-> NoInput]

init(p, currentTime) ==
  [p EXCEPT !.lastInputProcessTime = currentTime, !.lastUpdateTime = currentTime]

create(position, speed, worldBounds, currentTime) ==
  init(Player([position |-> position, speed |-> speed,
               worldBounds |-> worldBounds]), currentTime)

(* The deltaTime Player.update passes to _update. *)
deltaTimeOf(p, currentTime) ==
  IF p.pendingInput # NoInput THEN currentTime - p.pendingInput.timestamp
  ELSE currentTime - p.lastUpdateTime

(* Player.update, with what Date.now() returns. *)
update(p, currentTime) ==
  LET deltaTime == deltaTimeOf(p, currentTime)
  IN IF p.pendingInput # NoInput
     THEN _update([p EXCEPT !.lastUpdateTime = p.pendingInput.timestamp,
                            !.pendingInput = NoInput], deltaTime)
     ELSE _update([p EXCEPT !.lastUpdateTime = currentTime], deltaTime)

(* Game (game/game.js): the constructor, and the listeners init()          *)
(* registers, as operators from a game record to a game record.            *)
Game ==
  [self |-> NoPlayer, inputNum |-> 0, worldLimits |-> WorldLimits]

(* The part of Game._onInput ahead of this.conn.emit. *)
Game_onInput(g, state, currentTime) ==
  IF g.self # NoPlayer
  THEN LET inputNum == g.inputNum + 1
           packagedInput == Input(inputNum, currentTime, state.basic.directionData)
           p1 == addInputToQueue(g.self, packagedInput)
           p2 == updateVelocity(p1, state)
       IN [g EXCEPT !.inputNum = inputNum,
                    !.self = [p2 EXCEPT !.pendingInput = packagedInput]]
  ELSE g

(* Game._onGameState with parsed = JSON.parse(state). *)
Game_onGameState(g, parsed, currentTime) ==
  IF g.self = NoPlayer /\ Lacks(parsed.self, "position") THEN g
  ELSE
  LET g1 == IF g.self = NoPlayer
            THEN [g EXCEPT !.self =
                    create(fromObject(parsed.self.position), parsed.self.speed,
                           [x |-> [MIN |-> 0, MAX |-> g.worldLimits.x * Den],
                            y |-> [MIN |-> 0, MAX |-> g.worldLimits.y * Den]],
                           currentTime)]
            ELSE g
  IN [g1 EXCEPT !.self = acceptAuthoritarianState(@, parsed.self)]

(* Game.run: one animation frame. *)
run(g, currentTime) ==
  IF g.self # NoPlayer THEN [g EXCEPT !.self = update(@, currentTime)] ELSE g

(* The ECS client: Game with its world, and the player systems.  The world *)
(* holds one entity, the client's own; its components are fields of the    *)
(* game record.                                                            *)
NoEntity == 0
SelfEntity == 1
(* An 'update' message of the ECS client: GameState. *)
GameState(stats) == [self |-> stats]

EcsGame ==
  [_self |-> NoEntity,
   player |-> [inputQueue |-> <<>>, unprocessedInputs |-> <<>>,
               lastProcessedInput |-> 0, lastUpdateTime |-> 0,
               lastInputProcessTime |-> 0],
   transform |-> [position |-> zero],
   velocity |-> [velocity |-> zero],
   props |-> [mass |-> 0, speed |-> 0],
   _inboundMsgs |-> <<>>, _outboundMsgs |-> <<>>,
   _inputNum |-> 0, _lastUpdateTime |-> 0,
   worldLimits |-> WorldLimits, running |-> TRUE]

(* Vector2D.boundTo: both axes bound to 0 and the limit. *)
boundTo(v, limits) ==
  Vec(bind(v.x, 0, limits.x * Den), bind(v.y, 0, limits.y * Den))

Systems_getVelocity(data, opts) ==
  LET d == data.direction
      v1 == IF d.up THEN add(zero, Vec(0, -opts.speed))
            ELSE IF d.down THEN add(zero, Vec(0, opts.speed)) ELSE zero
  IN IF d.left THEN add(v1, Vec(-opts.speed, 0))
     ELSE IF d.right THEN add(v1, Vec(opts.speed, 0)) ELSE v1

createSelf(g, opts) ==
  [g EXCEPT !._self = SelfEntity,
            !.props = [mass |-> opts.mass, speed |-> opts.speed],
            !.transform = [position |-> opts.position],
            !.velocity = [velocity |-> zero]]

(* One step of a player system: move by the velocity for deltaTime. *)
Moved(g, deltaTime) ==
  [g EXCEPT !.transform.position =
     boundTo(add(@, floorAxes(scale(g.velocity.velocity, deltaTime))),
             g.worldLimits)]

(* The for loop of processInputs without its two checks: no input is     *)
(* skipped.                                                                *)
RECURSIVE processEach_NoSkip(_, _)
processEach_NoSkip(g, inputs) ==
  IF inputs = <<>> THEN g
  ELSE LET input == Head(inputs)
           g1 == [g EXCEPT !.velocity.velocity =
                    Systems_getVelocity(input, [speed |-> g.props.speed])]
           deltaTime == input.timestamp - g1.player.lastUpdateTime
           g2 == [g1 EXCEPT !.player.lastUpdateTime = input.timestamp]
           g3 == Moved(g2, deltaTime)
       IN processEach_NoSkip([g3 EXCEPT !.player.lastProcessedInput =
                                input.inputNum], Tail(inputs))

(* The for loop of processInputs. *)
RECURSIVE processEach(_, _)
processEach(g, inputs) ==
  IF inputs = <<>> THEN g
  ELSE LET input == Head(inputs)
       IN IF input.inputNum <= g.player.lastProcessedInput
          THEN processEach(g, Tail(inputs))
          ELSE IF input.timestamp < g.player.lastUpdateTime
          THEN processEach(g, Tail(inputs))
          ELSE LET g1 == [g EXCEPT !.velocity.velocity =
                            Systems_getVelocity(input, [speed |-> g.props.speed])]
                   deltaTime == input.timestamp - g1.player.lastUpdateTime
                   g2 == [g1 EXCEPT !.player.lastUpdateTime = input.timestamp]
                   g3 == Moved(g2, deltaTime)
               IN processEach([g3 EXCEPT !.player.lastProcessedInput =
                                 input.inputNum], Tail(inputs))

processInputs(g, inputs, currentTime) ==
  IF Len(inputs) < 1
  THEN LET deltaTime == currentTime - g.player.lastUpdateTime
       IN [Moved(g, deltaTime) EXCEPT !.player.lastUpdateTime = currentTime]
  ELSE processEach(g, inputs)

(* The filter of acceptAuthoritativeState: the player after the callbacks, *)
(* and the inputs the filter keeps.                                        *)
RECURSIVE filterPending(_, _, _)
filterPending(g, state, inputs) ==
  IF inputs = <<>> THEN [g |-> g, kept |-> <<>>]
  ELSE LET pending == Head(inputs)
       IN IF LessOrEqual(pending.inputNum, lastProcessedInputOf(state))
          THEN filterPending(
                 [g EXCEPT !.player.lastInputProcessTime = pending.timestamp],
                 state, Tail(inputs))
          ELSE LET rest == filterPending(g, state, Tail(inputs))
               IN [g |-> rest.g, kept |-> <<pending>> \o rest.kept]

acceptAuthoritativeState(g, state) ==
  LET g1 == [g EXCEPT !.transform.position = fromObject(state.self.position),
                      !.velocity.velocity = fromObject(state.self.velocity)]
      unprocessedInputs == g1.player.unprocessedInputs
      f == filterPending([g1 EXCEPT !.player.unprocessedInputs = <<>>],
                         state, unprocessedInputs)
      stillUnprocessed == f.kept
  IN IF Len(stillUnprocessed) > 0
     THEN [processInputs(f.g, stillUnprocessed, 0)
             EXCEPT !.player.unprocessedInputs = @ \o stillUnprocessed]
     ELSE f.g

(* Game of the ECS client: the part of _onInput, _onGameState and update.  *)
EcsGame_onInput(g, state, currentTime) ==
  IF g._self = NoEntity THEN g
  ELSE LET inputNum == g._inputNum + 1
           packagedInput == Input(inputNum, currentTime,
                                  Dir(state.keys.up, state.keys.down,
                                      state.keys.left, state.keys.right))
       IN [g EXCEPT !._inputNum = inputNum,
                    !.player.inputQueue = Append(@, packagedInput),
                    !._outboundMsgs = Append(@, packagedInput)]

EcsGame_onGameState(g, state) == [g EXCEPT !._inboundMsgs = Append(@, state)]

RECURSIVE processEachMessage(_, _)
processEachMessage(g, msgs) ==
  IF msgs = <<>> THEN g
  ELSE LET state == Head(msgs)
           g1 == IF g._self = NoEntity
                 THEN createSelf(g, [mass |-> 2, speed |-> state.self.speed,
                                     position |-> state.self.position])
                 ELSE g
       IN processEachMessage(acceptAuthoritativeState(g1, state), Tail(msgs))

_processServerMessages(g) ==
  processEachMessage([g EXCEPT !._inboundMsgs = <<>>], g._inboundMsgs)

_processInputs(g, currentTime) ==
  IF g._self = NoEntity THEN g
  ELSE processInputs([g EXCEPT !.player.inputQueue = <<>>],
                     g.player.inputQueue, currentTime)

(* _postUpdate without the splice: the messages stay in _outboundMsgs. *)
_postUpdate_NoSplice(g, currentTime) == [g EXCEPT !._lastUpdateTime = currentTime]

(* _postUpdate up to its loop over the messages it took out of the queue. *)
_postUpdate(g, currentTime) ==
  [g EXCEPT !._lastUpdateTime = currentTime, !._outboundMsgs = <<>>]

(* What a task of a Game records about itself: the snapshot it accepted    *)
(* last, and the entity as it was when that call returned.                 *)
Step(op, state, after) == [op |-> op, state |-> state, after |-> after]

Seen(position, velocity, unprocessedInputs, lastInputProcessTime) ==
  [position |-> position, velocity |-> velocity,
   unprocessedInputs |-> unprocessedInputs,
   lastInputProcessTime |-> lastInputProcessTime]

SeenPlayer(p) ==
  Seen(p.position, p.velocity, p.unprocessedInputs, p.lastInputProcessTime)

SeenEntity(g) ==
  Seen(g.transform.position, g.velocity.velocity, g.player.unprocessedInputs,
       g.player.lastInputProcessTime)

NoSnapshot == Snapshot(zero, zero, 0, 0)
Unseen == Seen(zero, zero, <<>>, 0)

(* PlayApp creates the Game once the connection is there: the connection   *)
(* after an accepted server-hello and the 'ready' PlayApp emits on it.     *)
WSConn(opt) ==
  [id |-> NoId, isAlive |-> FALSE, connected |-> FALSE, pingTimeout |-> NoTimer,
   pingTimeoutDuration |-> IF opt = 0 THEN DefaultPingTimeout ELSE opt,
   disconnecting |-> FALSE, abortedHandshake |-> FALSE,
   ws |-> [readyState |-> "CONNECTING", protocol |-> "", closeCalls |-> 0,
           closeCode |-> NoCode],
   hs |-> [pc |-> "idle", reqKey |-> NoKey, expected |-> NoKey,
           handshakeTimeout |-> NoTimer],
   timers |-> {}, listeners |-> [onConnect |-> TRUE, closeAck |-> <<>>],
   sent |-> EmptyBag, emitted |-> [e \in Events |-> 0], errors |-> EmptyBag,
   last |-> Task("new", Frame("")), received |-> 0, calls |-> 0]

Connected ==
  LET c1 == _onOpen([WSConn(0) EXCEPT !.ws.readyState = "OPEN",
                                      !.ws.protocol = "pow.cwdtp"])
      c2 == doClientHandshake(c1, 1)
      c3 == serverHelloHandler(c2, ServerHello(expectedKey(1), "c1"))
  IN emit(c3, "ready")

----------------------------------------------------------------------------
(* Initial state: the connection as the constructor leaves it. *)

Init ==
  /\ id = NoId
  /\ isAlive = FALSE
  /\ connected = FALSE
  /\ pingTimeout = NoTimer
  /\ \E opt \in PingTimeoutOpts :
       pingTimeoutDuration = IF opt = 0 THEN DefaultPingTimeout ELSE opt
  /\ disconnecting = FALSE
  /\ abortedHandshake = FALSE
  /\ ws = [readyState |-> "CONNECTING", protocol |-> "", closeCalls |-> 0,
           closeCode |-> NoCode]
  /\ hs = [pc |-> "idle", reqKey |-> NoKey, expected |-> NoKey,
           handshakeTimeout |-> NoTimer]
  /\ timers = {}
  /\ listeners = [onConnect |-> TRUE, closeAck |-> <<>>]
  /\ sent = EmptyBag
  /\ emitted = [e \in Events |-> 0]
  /\ errors = EmptyBag
  /\ last = Task("new", Frame(""))
  /\ received = 0
  /\ calls = 0
  /\ engine = "none"
  /\ game = Game
  /\ ecs = EcsGame
  /\ now = 0
  /\ handed = <<>>
  /\ wire = <<>>
  /\ issued = <<>>
  /\ frameAt = NoFrame
  /\ step = Step("new", NoSnapshot, Unseen)
  /\ codec = NoCall

(* Actions: one per task of the event loop *)

(* The WebSocket's 'open' event. *)
WsOpen(protocol) ==
  /\ ws.readyState = "CONNECTING"
  /\ Commit(_onOpen([Begin(self, "open", Frame(""))
                       EXCEPT !.ws.readyState = "OPEN",
                              !.ws.protocol = protocol]))

(* The continuation of doClientHandshake after its awaits. *)
HandshakeResume(reqKey) ==
  /\ hs.pc = "pending"
  /\ Commit(doClientHandshake(Begin(self, "handshake", Frame("")), reqKey))

(* The WebSocket's 'message' event. *)
WsMessage(frame) ==
  /\ ws.readyState = "OPEN"
  /\ received < MaxInbound
  /\ Commit(_onMessage([Begin(self, "message", frame)
                          EXCEPT !.received = @ + 1], frame))

(* The WebSocket's 'close' event, preceded by its 'error' event when the   *)
(* connection failed (as it did when it closes before it opened).          *)
WsCloseEvent(clean) ==
  /\ ws.readyState # "CLOSED"
  /\ clean => ws.readyState # "CONNECTING"
  /\ LET c0 == [Begin(self, "close", Frame(""))
                  EXCEPT !.ws.readyState = "CLOSED"]
         c1 == IF clean THEN c0 ELSE emitError(c0, Error("", "undefined"))
     IN Commit(_onClose(c1))

HandshakeTimeoutFires ==
  \E t \in timers :
    /\ t.kind = "handshake"
    /\ CanFire(self, t)
    /\ Commit(handshakeTimeoutCallback(
                Fired(Begin(self, "handshakeTimeout", Frame("")), t)))

PingTimeoutFires ==
  \E t \in timers :
    /\ t.kind = "ping"
    /\ CanFire(self, t)
    /\ Commit(pingTimeoutCallback(
                Fired(Begin(self, "pingTimeout", Frame("")), t)))

CloseTimeoutFires ==
  \E t \in timers :
    /\ t.kind = "close"
    /\ CanFire(self, t)
    /\ Commit(closeTimeoutCallback(
                Fired(Begin(self, "closeTimeout", Frame("")), t)))

(* Calls of the public API by the application. *)
CallEmit(event) ==
  /\ calls < MaxCalls
  /\ Commit(emit([Begin(self, "emit", Frame(event)) EXCEPT !.calls = @ + 1],
                 event))

CallDisconnect(force, wasError) ==
  /\ calls < MaxCalls
  /\ Commit(disconnect([Begin(self, "disconnect", Frame(""))
                          EXCEPT !.calls = @ + 1, !.last.force = force],
                       force, UserCode, "user", wasError))

Next ==
  \/ \E p \in {"pow.cwdtp", ""} : WsOpen(p)
  \/ \E k \in ReqKeys : HandshakeResume(k)
  \/ \E f \in Inbound : WsMessage(f)
  \/ \E clean \in BOOLEAN : WsCloseEvent(clean)
  \/ HandshakeTimeoutFires
  \/ PingTimeoutFires
  \/ CloseTimeoutFires
  \/ CallEmit("ready")
  \/ \E force \in BOOLEAN : CallDisconnect(force, FALSE)

Spec == Init /\ [][Next]_vars

(* Spec with fair scheduling of what the connection itself has started:    *)
(* a timer that is armed and due fires, and the promises doClientHandshake *)
(* awaits (random bytes, digest) are settled.  When the transport opens,   *)
(* fails or delivers a frame is up to the network and the peer.            *)
FairSpec ==
  /\ Spec
  /\ WF_vars(HandshakeTimeoutFires)
  /\ WF_vars(PingTimeoutFires)
  /\ WF_vars(CloseTimeoutFires)
  /\ WF_vars(\E k \in ReqKeys : HandshakeResume(k))

TypeOK ==
  /\ id \in {NoId} \cup Cids
  /\ isAlive \in BOOLEAN
  /\ connected \in BOOLEAN

----------------------------------------------------------------------------
(* The Game on an open connection *)

gvars == <<vars, engine, game, ecs, now, handed, wire, step, issued, frameAt>>

StartTime == 1

IsConn(r) ==
  /\ id = r.id
  /\ isAlive = r.isAlive
  /\ connected = r.connected
  /\ pingTimeout = r.pingTimeout
  /\ pingTimeoutDuration = r.pingTimeoutDuration
  /\ disconnecting = r.disconnecting
  /\ abortedHandshake = r.abortedHandshake
  /\ ws = r.ws
  /\ hs = r.hs
  /\ timers = r.timers
  /\ listeners = r.listeners
  /\ sent = r.sent
  /\ emitted = r.emitted
  /\ errors = r.errors
  /\ last = r.last
  /\ received = r.received
  /\ calls = r.calls

GameInit ==
  /\ IsConn(Connected)
  /\ engine \in {"class", "ecs"}
  /\ game = Game
  /\ ecs = EcsGame
  /\ now = StartTime
  /\ handed = <<>>
  /\ wire = <<>>
  /\ issued = <<>>
  /\ frameAt = NoFrame
  /\ step = Step("new", NoSnapshot, Unseen)
  /\ codec = NoCall

(* this.conn.emit(communications.CONN_CLIENT_ACTION, msg) for each msg in   *)
(* turn, up to the first call that throws.                                 *)
RECURSIVE emitEach(_, _)
emitEach(acc, msgs) ==
  IF msgs = <<>> THEN acc
  ELSE LET c0 == Begin(acc.c, "emit", Frame("client-action"))
           c1 == emit(c0, "client-action")
           h == Append(acc.handed, Head(msgs).inputNum)
       IN IF c1.last.threw
          THEN [acc EXCEPT !.c = c1, !.handed = h, !.threw = TRUE]
          ELSE emitEach(
                 [acc EXCEPT !.c = c1, !.handed = h,
                    !.wire = IF BagCardinality(c1.sent) > BagCardinality(c0.sent)
                             THEN Append(@, Head(msgs).inputNum) ELSE @],
                 Tail(msgs))

Emitting == [c |-> self, handed |-> handed, wire |-> wire, threw |-> FALSE]

Emitted(r) ==
  /\ Assign(r.c)
  /\ handed' = r.handed
  /\ wire' = r.wire

(* Date.now() moves on. *)
Tick ==
  /\ engine # "none"
  /\ now < MaxTime
  /\ now' = now + 1
  /\ UNCHANGED <<vars, engine, game, ecs, handed, wire, step, codec, issued, frameAt>>

(* game/game.js: the 'input' event of the input manager. *)
GameOnInput(d) ==
  /\ engine = "class"
  /\ game.inputNum < MaxInputs
  /\ LET g1 == Game_onInput(game, [basic |-> [directionData |-> d]], now)
     IN /\ game' = g1
        /\ Emitted(IF game.self # NoPlayer
                   THEN emitEach(Emitting, <<g1.self.pendingInput>>)
                   ELSE Emitting)
  /\ step' = Step("input", NoSnapshot, Unseen)
  /\ UNCHANGED <<engine, ecs, now, codec, issued, frameAt>>

(* game/game.js: an 'update' message of the connection.  The step is an   *)
(* "accept" when the snapshot has its fields; with a snapshot that lacks   *)
(* one it is a "throw" when the listener threw and "lacking" when it       *)
(* returned.                                                               *)
GameOnGameState(s) ==
  /\ engine = "class"
  /\ ws.readyState = "OPEN"
  /\ game' = Game_onGameState(game, [self |-> s], now)
  /\ step' = IF acceptThrows(s) THEN Step("throw", s, Unseen)
             ELSE IF s \in Lacking
             THEN Step("lacking", s, SeenPlayer(game'.self))
             ELSE Step("accept", s, SeenPlayer(game'.self))
  /\ UNCHANGED <<vars, engine, ecs, now, handed, wire, codec, issued, frameAt>>

(* game/game.js: an animation frame. *)
GameRun ==
  /\ engine = "class"
  /\ game' = run(game, now)
  /\ frameAt' = IF game.self # NoPlayer THEN now ELSE frameAt
  /\ step' = Step("run", NoSnapshot, Unseen)
  /\ UNCHANGED <<vars, engine, ecs, now, handed, wire, codec, issued>>

(* ECS client: the 'input' event of the input manager. *)
EcsInput(d) ==
  /\ engine = "ecs"
  /\ ecs._inputNum < MaxInputs
  /\ ecs' = EcsGame_onInput(ecs, [keys |-> d], now)
  /\ step' = Step("input", NoSnapshot, Unseen)
  /\ UNCHANGED <<vars, engine, game, now, handed, wire, codec, frameAt>>

EcsOnInput(d) == EcsInput(d) /\ UNCHANGED issued

(* The same, with the input it packaged kept in the history. *)
EcsOnInputKept(d) ==
  /\ EcsInput(d)
  /\ issued' = IF ecs._self = NoEntity THEN issued
               ELSE Append(issued, Input(ecs'._inputNum, now,
                                         Dir(d.up, d.down, d.left, d.right)))

(* ECS client: an 'update' message of the connection. *)
EcsOnGameState(s) ==
  /\ engine = "ecs"
  /\ ws.readyState = "OPEN"
  /\ Len(ecs._inboundMsgs) < MaxQueued
  /\ ecs' = EcsGame_onGameState(ecs, GameState(s))
  /\ step' = Step("message", NoSnapshot, Unseen)
  /\ UNCHANGED <<vars, engine, game, now, handed, wire, codec, issued, frameAt>>

(* ECS client: an animation frame, Game.update(Date.now()); a frame that   *)
(* throws does not request the next one.                                   *)
EcsUpdate ==
  /\ engine = "ecs"
  /\ ecs.running
  /\ LET g1 == _processServerMessages(ecs)
         g2 == _processInputs(g1, now)
         outbound == g2._outboundMsgs
         g3 == _postUpdate(g2, now)
         r == emitEach(Emitting, outbound)
     IN /\ ecs' = [g3 EXCEPT !.running = ~r.threw]
        /\ Emitted(r)
        /\ step' = IF ecs._inboundMsgs = <<>>
                   THEN Step("update", NoSnapshot, Unseen)
                   ELSE Step("accept",
                             ecs._inboundMsgs[Len(ecs._inboundMsgs)].self,
                             SeenEntity(g1))
  /\ UNCHANGED <<engine, game, now, codec, issued, frameAt>>

GameNext ==
  \/ Tick
  \/ \E d \in Directions : GameOnInput(d)
  \/ \E s \in Snapshots \cup Lacking : GameOnGameState(s)
  \/ GameRun
  \/ \E d \in Directions : EcsOnInput(d)
  \/ \E s \in EcsSnapshots : EcsOnGameState(s)
  \/ EcsUpdate
  \/ WsCloseEvent(TRUE)

GameSpec == GameInit /\ [][GameNext]_gvars

(* The ECS client on its own, with the history of its inputs. *)
EcsInit == GameInit /\ engine = "ecs"

EcsNext ==
  \/ Tick
  \/ \E d \in Directions : EcsOnInputKept(d)
  \/ \E s \in EcsSnapshots : EcsOnGameState(s)
  \/ EcsUpdate
  \/ WsCloseEvent(TRUE)

EcsSpec == EcsInit /\ [][EcsNext]_gvars

----------------------------------------------------------------------------
(* The framing codec on its own: _encodeMsg on arguments a caller may      *)
(* pass, the transport in between, _decodeMsg on what the encoder wrote    *)
(* and on messages a peer may send.                                        *)

cvars == <<gvars, codec>>

(* The longest typed array, counted in elements. *)
MaxElems == 1

RECURSIVE SeqsUpTo(_, _)
SeqsUpTo(S, n) ==
  IF n = 0 THEN {<<>>}
  ELSE LET shorter == SeqsUpTo(S, n - 1)
       IN shorter \cup {Append(q, x) : q \in shorter, x \in S}

(* Elements a binary value of each kind may hold. *)
ElementsOf(kind) ==
  CASE kind \in {"arraybuffer", "dataview", "uint8array", "uint8clampedarray"} ->
         {1, 255}
    [] kind \in {"int8array", "int16array", "int32array"} -> {-2, 1}
    [] kind \in {"uint16array", "uint32array"} -> {1, 258}
    [] OTHER -> {0, 1}

BinaryValues ==
  UNION {{Binary(kind, elems) : elems \in SeqsUpTo(ElementsOf(kind), MaxElems)} :
           kind \in TYPED_ARRAY_TYPES \cup {"arraybuffer", "dataview"}}

(* Plain values JSON can hold, among them an object that holds a binary    *)
(* value and one that has the properties of a tagged binary value.         *)
JSONValues ==
  {Num(1), Str("a"), Bool(TRUE), Null, Arr(<<Num(1), Str("a")>>),
   Obj(<<Prop("k", Str("v"))>>),
   Obj(<<Prop("buf", Arr(<<Binary("uint8array", <<1>>)>>))>>),
   Obj(<<Prop("binary", Bool(TRUE)), Prop("type", Str("arraybuffer")),
         Prop("contents", Arr(<<Num(1)>>))>>)}

DataLists ==
  {Arr(<<>>), Arr(<<Num(1), Binary("dataview", <<255>>)>>)}
  \cup {Arr(<<v>>) : v \in BinaryValues \cup JSONValues}

EventNames == {Str("update"), Str("cwdtp::ping")}

(* meta as a caller may pass it: objects with recognised keys, objects     *)
(* with another key, arrays, and what is not an object.                    *)
ValidMetas ==
  {Obj(<<>>), Obj(<<Prop("reason", Str("bye")), Prop("error", Bool(TRUE))>>)}

Metas ==
  ValidMetas
  \cup {Obj(<<Prop("foo", Num(1))>>),
        Obj(<<Prop("cid", Str("c1")), Prop("foo", Num(1))>>),
        Arr(<<Str("x")>>), Arr(<<>>), Str("meta"), Undef}

(* Messages a peer may send that no _encodeMsg wrote. *)
Envelope(event, meta, data) ==
  Obj(<<Prop("event", event), Prop("meta", meta), Prop("data", data)>>)

PeerMessages ==
  {Payload("string", FALSE, Undef), Payload("number", TRUE, Num(1)),
   Payload("arraybuffer", FALSE, Undef)}
  \cup {Payload("string", TRUE, v) :
          v \in {Null, Num(0), Num(1), Str("update"), Arr(<<>>),
                 Obj(<<Prop("meta", Obj(<<>>)), Prop("data", Arr(<<>>))>>),
                 Envelope(Num(1), Obj(<<>>), Arr(<<>>)),
                 Obj(<<Prop("event", Str("update")), Prop("data", Arr(<<>>))>>),
                 Envelope(Str("update"), Null, Arr(<<>>)),
                 Envelope(Str("update"), Str("meta"), Arr(<<>>)),
                 Envelope(Str("update"), Obj(<<Prop("foo", Num(1))>>), Arr(<<>>)),
                 Envelope(Str("update"), Arr(<<Str("x")>>), Arr(<<>>)),
                 Envelope(Str("update"), Arr(<<>>), Arr(<<>>)),
                 Obj(<<Prop("event", Str("update")), Prop("meta", Obj(<<>>))>>),
                 Envelope(Str("update"), Obj(<<>>), Null),
                 Envelope(Str("update"), Obj(<<>>), Obj(<<>>)),
                 Envelope(Str("update"), Obj(<<>>), Str("data")),
                 Envelope(Str("update"), Obj(<<Prop("foo", Num(1))>>), Null),
                 Envelope(Str(""), Obj(<<Prop("cid", Str("c1"))>>),
                          Arr(<<Num(1)>>))}}

CodecInit ==
  /\ IsConn(WSConn(0))
  /\ engine = "none"
  /\ game = Game
  /\ ecs = EcsGame
  /\ now = 0
  /\ handed = <<>>
  /\ wire = <<>>
  /\ issued = <<>>
  /\ frameAt = NoFrame
  /\ step = Step("new", NoSnapshot, Unseen)
  /\ codec \in {Call("args", e, m, d, NoPayload) :
                  e \in EventNames, m \in Metas, d \in DataLists}
               \cup {Call("received", Undef, Undef, Undef, msg) :
                       msg \in PeerMessages}

(* this._encodeMsg(event, meta, ...data) *)
Encode ==
  /\ codec.pc = "args"
  /\ LET r == _encodeMsg(codec.event, codec.meta, codec.data)
     IN codec' = [codec EXCEPT !.pc = "encoded", !.encoded = r,
                               !.msg = IF r.threw THEN NoPayload ELSE r.value]
  /\ UNCHANGED gvars

(* this.ws.send(data): the peer's transport hands over an ArrayBuffer. *)
Transmit ==
  /\ codec.pc = "encoded"
  /\ ~codec.encoded.threw
  /\ codec' = [codec EXCEPT !.pc = "received", !.msg.type = "arraybuffer"]
  /\ UNCHANGED gvars

(* this._decodeMsg(data), on what _encodeMsg returned or on what arrived. *)
Decode ==
  /\ \/ codec.pc = "encoded" /\ ~codec.encoded.threw
     \/ codec.pc = "received"
  /\ codec' = [codec EXCEPT !.pc = "decoded", !.decoded = _decodeMsg(codec.msg)]
  /\ UNCHANGED gvars

CodecNext == Encode \/ Transmit \/ Decode

CodecSpec == CodecInit /\ [][CodecNext]_cvars

----------------------------------------------------------------------------
(* processInputs of the player systems on its own: the entity as the first *)
(* update of the ECS client created it, and calls with no input, one input *)
(* or two, each with any inputNum and a timestamp of now or of the         *)
(* millisecond before.                                                     *)

InputsAt(time) ==
  {Input(n, t, Dir(FALSE, TRUE, FALSE, TRUE)) :
     n \in 1..MaxInputs, t \in {time - 1, time}}

InputLists(time) ==
  {<<>>} \cup {<<a>> : a \in InputsAt(time)}
         \cup {<<a, b>> : a \in InputsAt(time), b \in InputsAt(time)}

InputsInit ==
  /\ IsConn(Connected)
  /\ engine = "ecs"
  /\ game = Game
  /\ ecs \in {_postUpdate(
                 _processInputs(
                   _processServerMessages(
                     EcsGame_onGameState(EcsGame, GameState(s))),
                   StartTime),
                 StartTime) : s \in EcsSnapshots}
  /\ now = StartTime
  /\ handed = <<>>
  /\ wire = <<>>
  /\ issued = <<>>
  /\ frameAt = NoFrame
  /\ step = Step("new", NoSnapshot, Unseen)
  /\ codec = NoCall

(* PlayerSystems.processInputs(inputs, {currentTime: Date.now(), ...}) *)
ProcessInputs(inputs) ==
  /\ engine = "ecs"
  /\ ecs' = processInputs(ecs, inputs, now)
  /\ step' = Step("inputs", inputs, SeenEntity(ecs'))
  /\ UNCHANGED <<vars, engine, game, now, handed, wire, codec, issued, frameAt>>

InputsNext ==
  \/ Tick
  \/ \E inputs \in InputLists(now) : ProcessInputs(inputs)

InputsSpec == InputsInit /\ [][InputsNext]_gvars

----------------------------------------------------------------------------
(* The connection and its peer alone: the transport opens, the handshake   *)
(* runs, frames arrive, well-formed ones and frames _decodeMsg rejects,    *)
(* timers fire and the transport closes; the application calls nothing.    *)

MsgInit ==
  /\ IsConn(WSConn(0))
  /\ engine = "none"
  /\ game = Game
  /\ ecs = EcsGame
  /\ now = 0
  /\ handed = <<>>
  /\ wire = <<>>
  /\ issued = <<>>
  /\ frameAt = NoFrame
  /\ step = Step("new", NoSnapshot, Unseen)
  /\ codec = NoCall

MsgNext ==
  \/ WsOpen("pow.cwdtp")
  \/ \E k \in ReqKeys : HandshakeResume(k)
  \/ \E f \in Inbound \cup Garbled : WsMessage(f)
  \/ WsCloseEvent(TRUE)
  \/ HandshakeTimeoutFires
  \/ PingTimeoutFires
  \/ CloseTimeoutFires

MsgSpec == MsgInit /\ [][MsgNext]_vars

----------------------------------------------------------------------------
(* Vocabulary of the properties *)

HandshakeTimers(ts) == {t \in ts : t.kind = "handshake"}
PingTimers(ts) == {t \in ts : t.kind = "ping"}
CloseTimers(ts) == {t \in ts : t.kind = "close"}

(* The last task handled an inbound server-hello with the handler of       *)
(* doClientHandshake registered.                                           *)
HandledHello == /\ last.op = "message"
                /\ last.frame.event = "cwdtp::server-hello"
                /\ hs.pc = "sent"

(* A server-hello that carries the expected response key and an id. *)
ValidHello(f) == /\ f.event = "cwdtp::server-hello"
                 /\ f.res_key # NoKey
                 /\ f.res_key = hs.expected
                 /\ f.cid # ""

WrongKeyHello(f) == /\ f.event = "cwdtp::server-hello"
                    /\ f.res_key # NoKey
                    /\ f.res_key # hs.expected

(* The handshake was aborted for a wrong response key at some point. *)
WrongKeyAborted == BagIn(CloseFrame("Invalid response key!", TRUE), sent)

(* The handshake timer has fired at some point. *)
HandshakeTimedOut == BagIn(Error("EHSTIMEOUT", "Handshake timeout"), errors)

----------------------------------------------------------------------------
(* C1: once a server-hello with a wrong response key was received, the     *)
(* connection never becomes Open: connected is false from then on and no   *)
(* 'connect' event is emitted, whatever arrives later.                     *)
C1_WrongKeyNeverOpen ==
  [][WrongKeyAborted =>
       (~connected' /\ emitted'["connect"] = emitted["connect"])]_vars

(* C2: the connection becomes Open (connected turns true or 'connect' is   *)
(* emitted) only in the task that handles a valid server-hello; after that *)
(* task no handshake timer is armed, id is the received cid and isAlive is *)
(* true; as long as 'connect' was never emitted id is null.                *)
C2_OpenOnlyByValidHello ==
  [][/\ ((~connected /\ connected') \/ emitted'["connect"] > emitted["connect"])
        => /\ last'.op = "message"
           /\ hs.pc = "sent"
           /\ ValidHello(last'.frame)
           /\ HandshakeTimers(timers') = {}
           /\ id' = last'.frame.cid
           /\ isAlive'
     /\ emitted'["connect"] = 0 => id' = NoId]_vars

C4_AbortForceCloses ==
  (HandledHello /\ ~ValidHello(last.frame)) =>
    /\ \E f \in BagToSet(sent) : f.event = "cwdtp::close" /\ f.error
    /\ ws.readyState \in {"CLOSING", "CLOSED"}
    /\ abortedHandshake
    /\ ~connected
    /\ emitted["error"] >= 1

C5_PingTimeoutOnce ==
  /\ [](emitted["pingTimeout"] <= 1)
  /\ [][(connected /\ ~disconnecting /\ last'.op = "pingTimeout") =>
          /\ ws'.readyState = "CLOSING"
          /\ ws'.closeCode = CodePingTimeout
          /\ ws'.closeCalls = 1
          /\ emitted'["pingTimeout"] = 1
          /\ ~connected'
          /\ timers' = {}]_vars

C5_Witness ==
  /\ last.op = "pingTimeout"
  /\ emitted["connect"] = 1
  /\ emitted["disconnecting"] = 1
  /\ emitted["pingTimeout"] = 1
  /\ ws.closeCode = CodePingTimeout

(* C6: at most one heartbeat timer is armed, and this.pingTimeout is its   *)
(* handle; an inbound ping removes the armed heartbeat timer, arms exactly *)
(* one new one and sends exactly one pong.                                 *)
C6_SingleHeartbeatTimer ==
  /\ [](/\ Cardinality(PingTimers(timers)) <= 1
        /\ \A t \in PingTimers(timers) : t.id = pingTimeout)
  /\ [][(last'.op = "message" /\ last'.frame = Frame("cwdtp::ping")) =>
          /\ PingTimers(timers) \cap timers' = {}
          /\ Cardinality(PingTimers(timers')) = 1
          /\ sent' = sent (+) SetToBag({Frame("cwdtp::pong")})]_vars

C6_Witness ==
  /\ last.op = "message"
  /\ last.frame = Frame("cwdtp::ping")
  /\ hs.pc = "sent"
  /\ pingTimeout > 2
  /\ PingTimers(timers) # {}
  /\ BagIn(Frame("cwdtp::pong"), sent)

(* C7: whenever _onClose emits 'disconnect', no timer is armed: neither    *)
(* the handshake timer nor the heartbeat timer nor a close timer.          *)
C7_NoTimerWhenTerminal ==
  last.onCloseRuns > 0 => last.armedAtDisconnect = {}

(* C8: emit throws and transmits nothing in every state other than Open,   *)
(* that is before the handshake completed and once disconnect was called.  *)
C8_EmitFailsUnlessOpen ==
  [][(last'.op = "emit" /\ (~connected \/ disconnecting)) =>
       (last'.threw /\ sent' = sent)]_vars

(* C9: once _onClose has run, every emit throws and transmits nothing.     *)
C9_EmitFailsWhenTerminal ==
  [][(last'.op = "emit" /\ emitted["disconnect"] > 0) =>
       (last'.threw /\ sent' = sent)]_vars

(* C10: disconnect(false, code, reason, wasError) on an open transport     *)
(* sends exactly one close frame with the reason and the error flag and    *)
(* arms one close timer; the close-ack that arrives then cancels the timer *)
(* of every pending graceful close, emits no error, closes the transport   *)
(* with the code of the caller whose close was pending first and leaves    *)
(* the connection closed.                                                  *)
C10_GracefulClose ==
  [][/\ (last'.op = "disconnect" /\ ~last'.force /\ ws.readyState = "OPEN") =>
          \E t \in timers' \ timers :
             /\ t.kind = "close"
             /\ timers' = timers \cup {t}
             /\ sent' = sent (+) SetToBag({CloseFrame("user", FALSE)})
             /\ listeners'.closeAck =
                  Append(listeners.closeAck,
                         [closeTimeout |-> t.id, code |-> UserCode])
     /\ (/\ last'.op = "message"
         /\ last'.frame = Frame("cwdtp::close-ack")
         /\ listeners.closeAck # <<>>) =>
          /\ \A i \in DOMAIN listeners.closeAck :
               \A t \in timers' : t.id # listeners.closeAck[i].closeTimeout
          /\ listeners'.closeAck = <<>>
          /\ errors' = errors
          /\ ws'.readyState = "CLOSING"
          /\ ws'.closeCode = listeners.closeAck[1].code
          /\ ~connected'
          /\ ~isAlive']_vars

C10_Witness ==
  /\ last.op = "message"
  /\ last.frame = Frame("cwdtp::close-ack")
  /\ BagIn(CloseFrame("user", FALSE), sent)
  /\ ws.closeCode = UserCode
  /\ emitted["connect"] = 1
  /\ emitted["disconnect"] = 1
  /\ CloseTimers(timers) = {}

C12_PeerCloseAcked ==
  [][(/\ last'.op = "message"
      /\ last'.frame.event = "cwdtp::close"
      /\ last'.frame.hasReason) =>
       /\ sent' = sent (+) SetToBag({Frame("cwdtp::close-ack")})
       /\ last'.onCloseRuns = 1
       /\ last'.sentAtDisconnect = BagCardinality(sent) + 1
       /\ emitted'["disconnect"] = emitted["disconnect"] + 1
       /\ PingTimers(timers') = {}
       /\ pingTimeout' = NoTimer
       /\ ~connected'
       /\ ~isAlive'
       /\ emitted'["error"] =
            emitted["error"] + (IF last'.frame.error THEN 1 ELSE 0)]_vars

C12_Witness ==
  /\ last.op = "message"
  /\ last.frame = CloseFrame("bye", TRUE)
  /\ emitted["connect"] = 1
  /\ emitted["disconnect"] = 1
  /\ emitted["error"] = 1
  /\ BagIn(Frame("cwdtp::close-ack"), sent)
  /\ last.sentAtDisconnect = BagCardinality(sent)

(* C13: under fair timer firing every connection eventually is Open or has *)
(* reached a terminal state ('disconnect' emitted), and every connection   *)
(* on which disconnect was called eventually reaches the terminal state:   *)
(* the transport dial, the wait for the server-hello and the wait for the  *)
(* close-ack each end at the latest when a timer of the connection fires.  *)
C13_NeverBlocks ==
  /\ <>(connected \/ emitted["disconnect"] > 0)
  /\ (disconnecting ~> emitted["disconnect"] > 0)

(* Vocabulary of the properties of the game *)

(* The inputs of a queue above and up to a watermark, in their order. *)
Pending(q, watermark) == SelectSeq(q, LAMBDA i : i.inputNum > watermark)
Discarded(q, watermark) == SelectSeq(q, LAMBDA i : i.inputNum <= watermark)

StrictlyIncreasing(ns) ==
  \A i, j \in DOMAIN ns : i < j => ns[i] < ns[j]

InputNums(q) == [i \in DOMAIN q |-> q[i].inputNum]

(* The integration step of local prediction, written out: the velocity of  *)
(* the direction flags and the speed, times the delta, floored per axis,   *)
(* added to the position, the sum clamped to the world.                    *)
VelocityOf(direction, speed) ==
  Vec(IF direction.left THEN -speed ELSE IF direction.right THEN speed ELSE 0,
      IF direction.up THEN -speed ELSE IF direction.down THEN speed ELSE 0)

Floored(n) == CHOOSE k \in {Den * m : m \in -20..20} : k <= n /\ n < k + Den

Clamped(n, limit) == IF n < 0 THEN 0 ELSE IF n > limit THEN limit ELSE n

Integrated(position, velocity, delta) ==
  Vec(Clamped(position.x + Floored(velocity.x * delta), WorldLimits.x * Den),
      Clamped(position.y + Floored(velocity.y * delta), WorldLimits.y * Den))

(* A position advanced by the inputs of a queue, one after the other, each *)
(* for the time since the input before it. *)
RECURSIVE Replayed(_, _, _, _)
Replayed(position, inputs, since, speed) ==
  IF inputs = <<>> THEN position
  ELSE Replayed(Integrated(position, VelocityOf(Head(inputs).direction, speed),
                           Head(inputs).timestamp - since),
                Tail(inputs), Head(inputs).timestamp, speed)

(* The step is a task that accepted a snapshot: neither the clock nor the  *)
(* transport moved.  The Player of game/player.js did, and was there       *)
(* before; the ECS client did.                                             *)
Accepted == step'.op = "accept" /\ now' = now /\ ws' = ws

Accepts == engine = "class" /\ Accepted /\ game.self # NoPlayer

EcsAccepts == engine = "ecs" /\ Accepted

(* C14: after Player.acceptAuthoritarianState(snapshot) unprocessedInputs  *)
(* holds exactly the inputs that were queued with an inputNum above        *)
(* snapshot.lastProcessedInput, in their order, and none at or below it.   *)
C14_PendingKept ==
  [][Accepts =>
       game'.self.unprocessedInputs =
         Pending(game.self.unprocessedInputs, step'.state.lastProcessedInput)]_gvars

(* C15: after Player.acceptAuthoritarianState(snapshot) the position is    *)
(* the snapshot's position advanced by the pending inputs (inputNum above  *)
(* the watermark) in increasing inputNum order, each through the           *)
(* integration step of local prediction with its timestamp minus           *)
(* lastInputProcessTime as delta: the timestamp of the input discarded or  *)
(* replayed before it, and what lastInputProcessTime was before the call   *)
(* for the first input of a call that discards none.                       *)
C15_ReplayedPosition ==
  [][Accepts =>
       LET q == game.self.unprocessedInputs
           watermark == step'.state.lastProcessedInput
           gone == Discarded(q, watermark)
           since == IF gone = <<>> THEN game.self.lastInputProcessTime
                    ELSE gone[Len(gone)].timestamp
       IN /\ StrictlyIncreasing(InputNums(Pending(q, watermark)))
          /\ game'.self.position =
               Replayed(step'.state.position, Pending(q, watermark), since,
                        game.self.speed)]_gvars

C15_Witness ==
  /\ engine = "class"
  /\ step.op = "accept"
  /\ step.state.lastProcessedInput = 0
  /\ game.inputNum = 2
  /\ game.self.pendingInput # NoInput
  /\ game.self.lastInputProcessTime = game.self.pendingInput.timestamp
  /\ game.self.lastInputProcessTime = now
  /\ game.self.velocity # step.state.velocity
  /\ game.self.position # step.state.position

(* C16: when snapshot.lastProcessedInput is at least every inputNum in     *)
(* unprocessedInputs (as it is when the queue is empty), the entity has    *)
(* the position and the velocity of the snapshot and an empty queue when   *)
(* the call that accepts the snapshot returns: Player.                     *)
(* acceptAuthoritarianState in game/player.js, acceptAuthoritativeState in *)
(* the ECS client; and so for every snapshot that is accepted.             *)
C16_SnapshotWins ==
  [][/\ (/\ Accepts
         /\ Pending(game.self.unprocessedInputs,
                    step'.state.lastProcessedInput) = <<>>) =>
          /\ step'.after = SeenPlayer(game'.self)
          /\ step'.after.position = step'.state.position
          /\ step'.after.velocity = step'.state.velocity
          /\ step'.after.unprocessedInputs = <<>>
     /\ (/\ EcsAccepts
         /\ Pending(ecs.player.unprocessedInputs,
                    step'.state.lastProcessedInput) = <<>>) =>
          /\ step'.after.position = step'.state.position
          /\ step'.after.velocity = step'.state.velocity
          /\ step'.after.unprocessedInputs = <<>>]_gvars

C16_Witness ==
  /\ engine = "class"
  /\ step.op = "accept"
  /\ game.inputNum = 2
  /\ step.state.lastProcessedInput = 2
  /\ game.self.lastInputProcessTime = game.self.pendingInput.timestamp
  /\ game.self.position = step.state.position
  /\ game.self.velocity = step.state.velocity
  /\ game.self.unprocessedInputs = <<>>

(* C17: Player.acceptAuthoritarianState called a second time with the same *)
(* snapshot, right after the first call, leaves position, velocity,        *)
(* unprocessedInputs and lastInputProcessTime as the first call left them. *)
C17_Idempotent ==
  [][(/\ Accepts
      /\ step.op = "accept"
      /\ step'.state = step.state) =>
       SeenPlayer(game'.self) = SeenPlayer(game.self)]_gvars

(* C18: unprocessedInputs is always sorted by strictly increasing          *)
(* inputNum, and so without a duplicate, in the Player of game/player.js   *)
(* and in the player component of the ECS client.                          *)
C18_QueueSorted ==
  /\ game.self # NoPlayer =>
       StrictlyIncreasing(InputNums(game.self.unprocessedInputs))
  /\ StrictlyIncreasing(InputNums(ecs.player.unprocessedInputs))

C18_Witness ==
  /\ engine = "class"
  /\ step.op = "input"
  /\ game.self # NoPlayer
  /\ InputNums(game.self.unprocessedInputs) = <<1, 2>>

(* C19: the client-action messages passed to conn.emit carry strictly      *)
(* increasing inputNum, and so do the ones the transport sent: they are    *)
(* sent in the order the inputs were made and none is sent twice, from     *)
(* Game._onInput and from Game._postUpdate.                                *)
C19_ActionsInOrder ==
  /\ StrictlyIncreasing(handed)
  /\ StrictlyIncreasing(wire)
  /\ \A i \in DOMAIN wire : \E j \in DOMAIN handed : handed[j] = wire[i]
  /\ CopiesIn(Frame("client-action"), sent) = Len(wire)

C19_Witness ==
  /\ engine = "ecs"
  /\ step.op \in {"update", "accept"}
  /\ last.op = "emit"
  /\ ecs._outboundMsgs = <<>>
  /\ handed = <<1, 2>>
  /\ wire = <<1, 2>>

(* C20: as long as no valid server-hello was accepted (id is still null)   *)
(* no inbound application envelope was dispatched to subscribers and no    *)
(* frame of an application emit was written to the transport.              *)
C20_NoDataBeforeHandshake ==
  id = NoId =>
    /\ emitted["update"] = 0
    /\ ~BagIn(Frame("ready"), sent)

(* Vocabulary of the properties of inbound frames *)

(* _decodeMsg returns an envelope for the frame. *)
Decodes(frame) == ~decodedMsg[frame].threw

(* The 'error' _onMessage emits for a frame _decodeMsg rejects with the    *)
(* given message.                                                          *)
ParseError(message) ==
  Error("", "Failed to parse message! Error is: " \o message)

(* A frame that _decodeMsg rejected has arrived at some point. *)
RejectedBefore ==
  \E f \in Inbound \cup Garbled :
    /\ ~Decodes(f)
    /\ BagIn(ParseError(decodedMsg[f].error.message), errors)

(* The task left the connection as it was: identity, flags, timers,        *)
(* transport, listeners, and nothing was sent.                             *)
ConnectionUntouched ==
  UNCHANGED <<id, isAlive, connected, disconnecting, abortedHandshake,
              pingTimeout, timers, ws, hs, listeners, sent>>

(* C21: the task of an inbound frame that _decodeMsg accepts calls the     *)
(* listeners of the envelope's event exactly once; for an event without    *)
(* the prefix 'cwdtp::' with the elements of data as arguments, in their   *)
(* order, for an event with the prefix with the one argument               *)
(* {isInternal: true, meta, data: null} and nothing of data.  Each frame   *)
(* is dispatched in the task it arrives in, so in the order of arrival.    *)
C21_DispatchedOnce ==
  [][(last'.op = "message" /\ Decodes(last'.frame)) =>
       LET f == last'.frame
       IN /\ received' = received + 1
          /\ Len(last'.dispatched) = 1
          /\ last'.dispatched[1].event = f.event
          /\ IF f.event \in ControlEvents
             THEN last'.dispatched[1].args =
                    <<Obj(<<Prop("isInternal", Bool(TRUE)),
                            Prop("meta", MetaOf(f)), Prop("data", Null)>>)>>
             ELSE /\ last'.dispatched[1].args = f.data
                  /\ emitted'[f.event] = emitted[f.event] + 1]_vars

C21_Witness ==
  /\ last.op = "message"
  /\ last.frame = WithData(Frame("update"), <<Str("state"), Num(1)>>)
  /\ last.dispatched = <<Dispatch("update", <<Str("state"), Num(1)>>)>>
  /\ received = 2
  /\ emitted["update"] = 2

InvalidProtoError == Error("EINVALPROTO", "Invalid negotiated protocol!")

(* C24: when the transport opens with a negotiated subprotocol other than  *)
(* 'pow.cwdtp', the task of the 'open' event closes it with code 4001 and  *)
(* emits 'error' with code EINVALPROTO; from then on that error was        *)
(* emitted exactly once, no client-hello was sent, the handshake never     *)
(* started, and the connection is not Open: connected is false, no         *)
(* 'connect' was emitted and no id recorded.                               *)
C24_InvalidProtoAborts ==
  /\ (last.op = "open" /\ ws.protocol # "pow.cwdtp") =>
       BagIn(InvalidProtoError, errors)
  /\ BagIn(InvalidProtoError, errors) =>
       /\ CopiesIn(InvalidProtoError, errors) = 1
       /\ ws.protocol # "pow.cwdtp"
       /\ ws.readyState \in {"CLOSING", "CLOSED"}
       /\ ws.closeCode = CodeInvalidProto
       /\ \A f \in BagToSet(sent) : f.event # "cwdtp::client-hello"
       /\ hs.pc = "idle"
       /\ HandshakeTimers(timers) = {}
       /\ ~connected
       /\ emitted["connect"] = 0
       /\ id = NoId

C24_Witness ==
  /\ last.op = "close"
  /\ BagIn(InvalidProtoError, errors)
  /\ ws.readyState = "CLOSED"
  /\ ws.closeCode = CodeInvalidProto
  /\ emitted["error"] = 1
  /\ sent = EmptyBag

(* C25: in every state isAlive is true only if a valid server-hello was    *)
(* accepted, so that the connection is connected and has its id, and       *)
(* _onClose has not run since.                                             *)
C25_AliveOnlyWhenOpen == isAlive => (connected /\ id # NoId)

(* C26: for an event, a valid meta and a data list of plain JSON values,   *)
(* ArrayBuffers, DataViews and typed arrays, _decodeMsg of what _encodeMsg *)
(* returned (as it is, or as the transport hands it over) returns an       *)
(* envelope whose data equals the data list: every binary value of the     *)
(* same kind with the same elements.                                       *)
C26_RoundTrip ==
  (codec.pc = "decoded" /\ codec.event.tag = "string"
     /\ codec.meta \in ValidMetas) =>
    /\ ~codec.decoded.threw
    /\ get(codec.decoded.value, "data") = codec.data

(* Vocabulary of C27: the value is an object in the sense of typeof, and   *)
(* an envelope of well-formed structure.                                   *)
IsObject(v) == v.tag \in {"object", "array", "binary"}

WellFormed(v) ==
  /\ v.tag = "object"
  /\ get(v, "event").tag = "string"
  /\ IsObject(get(v, "meta"))
  /\ keys(get(v, "meta")) \subseteq {"req_key", "res_key", "reason", "error", "cid"}
  /\ get(v, "data").tag = "array"

(* C27: _encodeMsg throws whenever meta is an object with a key outside    *)
(* req_key, res_key, reason, error and cid; _decodeMsg returns an envelope *)
(* if and only if the message is text that parses to an object whose event *)
(* is a string, whose meta is an object with recognised keys only and      *)
(* whose data is an array, returns that object, and throws otherwise.      *)
C27_WellFormedOnly ==
  /\ (/\ codec.pc = "encoded"
      /\ IsObject(codec.meta)
      /\ ~(keys(codec.meta) \subseteq {"req_key", "res_key", "reason", "error", "cid"}))
       => codec.encoded.threw
  /\ codec.pc = "decoded" =>
       /\ ~codec.decoded.threw <=>
            /\ codec.msg.type \in {"string", "arraybuffer", "uint16array"}
            /\ codec.msg.isJSON
            /\ WellFormed(parse(codec.msg.json))
       /\ ~codec.decoded.threw =>
            /\ WellFormed(codec.decoded.value)
            /\ codec.decoded.value = parse(codec.msg.json)

C27_Witness ==
  /\ codec.pc = "decoded"
  /\ codec.event = Undef
  /\ codec.decoded.threw
  /\ codec.decoded.error = Error("EINVALMETA", "Invalid protocol metadata!")
  /\ get(codec.msg.json, "data") = Null

(* Vocabulary of C28: the position lies in the world, and a call of        *)
(* acceptAuthoritarianState on player p with snapshot s replays an input.  *)
InWorld(position, worldLimits) ==
  /\ 0 <= position.x /\ position.x <= worldLimits.x * Den
  /\ 0 <= position.y /\ position.y <= worldLimits.y * Den

Replays(p, s) == Pending(p.unprocessedInputs, s.lastProcessedInput) # <<>>

(* C28: after every step of local prediction (Player.update from an        *)
(* animation frame, processInputs from Game.update) and after every        *)
(* snapshot whose reconciliation replays an input, the position of the     *)
(* entity lies within the world: 0 <= x <= worldLimits.x and               *)
(* 0 <= y <= worldLimits.y.                                                *)
C28_StepsStayInWorld ==
  [][/\ (engine = "class" /\ game.self # NoPlayer /\ step'.op = "run")
          => InWorld(game'.self.position, game'.worldLimits)
     /\ (/\ engine = "class" /\ game.self # NoPlayer /\ step'.op = "accept"
         /\ Replays(game.self, step'.state))
          => InWorld(game'.self.position, game'.worldLimits)
     /\ (engine = "ecs" /\ ecs'._self # NoEntity /\ step'.op \in {"update", "accept"})
          => InWorld(ecs'.transform.position, ecs'.worldLimits)]_gvars

(* A frame that moved the player against the edge of the world: the        *)
(* velocity points out of the world on both axes, the position is the      *)
(* corner.                                                                 *)
C28_Witness ==
  /\ engine = "class"
  /\ step.op = "run"
  /\ game.self # NoPlayer
  /\ game.self.velocity.x > 0
  /\ game.self.velocity.y > 0
  /\ game.self.position = Vec(game.worldLimits.x * Den, game.worldLimits.y * Den)

(* Vocabulary of C29: the snapshot lacks one of the fields the             *)
(* reconciliation reads.                                                   *)
Malformed(state) ==
  \/ Lacks(state, "position")
  \/ Lacks(state, "velocity")
  \/ Lacks(state, "lastProcessedInput")

(* C29: a call of acceptAuthoritarianState with a snapshot that lacks      *)
(* position, velocity or lastProcessedInput throws; it never returns.      *)
C29_MalformedFailsLoudly ==
  (step.op \in {"throw", "lacking"} /\ Malformed(step.state))
    => step.op = "throw"

(* Vocabulary of C30: the inputs local prediction of the ECS client has    *)
(* applied, which are the issued ones up to player.lastProcessedInput.     *)
Predicted(g) ==
  SelectSeq(issued, LAMBDA i : i.inputNum <= g.player.lastProcessedInput)

(* C30: when acceptAuthoritativeState of the ECS client returns, the       *)
(* inputs above the watermark of the snapshot that local prediction had    *)
(* applied are applied again, through processInputs: the velocity is the   *)
(* one of the last of them, and the position is the position of the        *)
(* snapshot advanced by each of them in turn.                              *)
C30_EcsReplaysPredicted ==
  [][(EcsAccepts /\ ecs._self # NoEntity) =>
       LET watermark == step'.state.lastProcessedInput
           pending == Pending(Predicted(ecs), watermark)
           gone == Discarded(Predicted(ecs), watermark)
           since == IF gone = <<>> THEN ecs.player.lastInputProcessTime
                    ELSE gone[Len(gone)].timestamp
       IN pending # <<>> =>
            /\ step'.after.velocity =
                 VelocityOf(pending[Len(pending)].direction, ecs.props.speed)
            /\ step'.after.position =
                 Replayed(step'.state.position, pending, since, ecs.props.speed)]_gvars

(* C31: a snapshot that is accepted right after one with a higher          *)
(* lastProcessedInput leaves the player as the newer one left it:          *)
(* position, velocity and the queue of unprocessed inputs.                 *)
C31_StaleSnapshotIgnored ==
  [][(/\ Accepts
      /\ step.op = "accept"
      /\ step'.state.lastProcessedInput < step.state.lastProcessedInput) =>
       /\ game'.self.position = game.self.position
       /\ game'.self.velocity = game.self.velocity
       /\ game'.self.unprocessedInputs = game.self.unprocessedInputs]_gvars

(* C32: a connection emits 'disconnect' once at most, whichever way it     *)
(* terminates and whatever the transport reports afterwards.               *)
C32_DisconnectOnce == emitted["disconnect"] <= 1

(* C33: a server-hello that arrives when the connection has its id leaves  *)
(* the id as it is and emits no 'connect'.                                 *)
C33_HelloOnce ==
  [][(/\ received' = received + 1
      /\ last'.frame.event = "cwdtp::server-hello"
      /\ id # NoId) =>
       /\ id' = id
       /\ emitted'["connect"] = emitted["connect"]]_vars

(* C34: an inbound envelope of an application event runs no subscriber of  *)
(* a lifecycle event, whatever its name is, and leaves isAlive as it is.   *)
C34_LifecycleNotFromPeer ==
  [][(/\ received' = received + 1
      /\ last'.frame.shape = "ok"
      /\ last'.frame.event \in AppEvents) =>
       /\ \A e \in {"connect", "disconnect", "error", "pingTimeout",
                    "abortingHandshake"} : emitted'[e] = emitted[e]
       /\ isAlive' = isAlive]_vars

(* C35: a heartbeat timer is armed only while the connection is open: the  *)
(* handshake has completed and _onClose has not run.                       *)
C35_HeartbeatOnlyWhenOpen ==
  PingTimers(timers) # {} =>
    (connected /\ id # NoId /\ emitted["disconnect"] = 0)

(* C36: once _onClose has run, an inbound envelope makes the connection    *)
(* write nothing to the transport.                                         *)
C36_SilentWhenTerminal ==
  [][(emitted["disconnect"] > 0 /\ received' = received + 1) =>
       sent' = sent]_vars

(* C37: a call of disconnect on a connection that is closing or closed     *)
(* sends no close frame, arms no close timer, does not call close on the   *)
(* transport and emits no 'disconnect'.                                    *)
C37_DisconnectIdempotent ==
  [][(/\ calls' = calls + 1
      /\ last'.op = "disconnect"
      /\ (disconnecting \/ emitted["disconnect"] > 0)) =>
       /\ sent' = sent
       /\ CloseTimers(timers') \subseteq CloseTimers(timers)
       /\ ws'.closeCalls = ws.closeCalls
       /\ emitted'["disconnect"] = emitted["disconnect"]]_vars

(* Vocabulary of C38: how many times a number occurs in a sequence. *)
Times(ns, n) == Cardinality({i \in DOMAIN ns : ns[i] = n})

(* C38: every input that was given an inputNum and queued for local        *)
(* prediction has been transmitted once: when Game._onInput of             *)
(* game/game.js has returned or thrown, and in the ECS client unless the   *)
(* input still waits in _outboundMsgs for the next update; no input is     *)
(* transmitted twice.                                                      *)
C38_PredictedIsSent ==
  /\ engine = "class" => \A n \in 1..game.inputNum : Times(wire, n) = 1
  /\ engine = "ecs" =>
       \A n \in 1..ecs._inputNum :
         IF n \in {ecs._outboundMsgs[i].inputNum : i \in DOMAIN ecs._outboundMsgs}
         THEN Times(wire, n) = 0
         ELSE Times(wire, n) = 1

(* C39: once Player.update has run, the deltaTime its next run passes to   *)
(* _update is the time since that run, whatever inputs came in between:    *)
(* the deltas of the frames add up to the time from the first frame to     *)
(* the last.                                                               *)
C39_EveryIntervalOnce ==
  (engine = "class" /\ game.self # NoPlayer /\ frameAt # NoFrame) =>
    deltaTimeOf(game.self, now) = now - frameAt

(* Vocabulary of C40: the inputs of a list that are not skipped, by the    *)
(* rule of the claim, when the last processed input is n and the last      *)
(* update time is t; and the four fields the claim is about.               *)
RECURSIVE Kept(_, _, _)
Kept(n, t, inputs) ==
  IF inputs = <<>> THEN <<>>
  ELSE LET input == Head(inputs)
       IN IF input.inputNum <= n \/ input.timestamp < t
          THEN Kept(n, t, Tail(inputs))
          ELSE <<input>> \o Kept(input.inputNum, input.timestamp, Tail(inputs))

Physical(g) ==
  <<g.transform.position, g.velocity.velocity, g.player.lastUpdateTime,
    g.player.lastProcessedInput>>

(* C40: over the calls of processInputs player.lastProcessedInput never    *)
(* goes down and goes up with every input that is applied, and             *)
(* player.lastUpdateTime never goes down; a call with inputs leaves        *)
(* position, velocity, lastUpdateTime and lastProcessedInput as the inputs *)
(* that are not skipped leave them (unchanged when all are skipped), an    *)
(* input being skipped when its inputNum is at most lastProcessedInput or  *)
(* its timestamp is earlier than lastUpdateTime.                           *)
C40_SkippedInputsChangeNothing ==
  [][/\ ecs'.player.lastProcessedInput >= ecs.player.lastProcessedInput
     /\ ecs'.player.lastUpdateTime >= ecs.player.lastUpdateTime
     /\ (step'.op = "inputs" /\ now' = now /\ step'.state # <<>>) =>
          LET kept == Kept(ecs.player.lastProcessedInput,
                           ecs.player.lastUpdateTime, step'.state)
          IN IF kept = <<>> THEN Physical(ecs') = Physical(ecs)
             ELSE /\ Physical(ecs') = Physical(processInputs(ecs, kept, now))
                  /\ ecs'.player.lastProcessedInput = kept[Len(kept)].inputNum
                  /\ ecs'.player.lastProcessedInput > ecs.player.lastProcessedInput
                  /\ ecs'.player.lastUpdateTime = kept[Len(kept)].timestamp]_gvars

(* A call with two inputs: the first is applied, the second has a lower    *)
(* inputNum and is skipped.                                                *)
C40_Witness ==
  /\ step.op = "inputs"
  /\ Len(step.state) = 2
  /\ step.state[2].inputNum < step.state[1].inputNum
  /\ step.state[2].timestamp >= step.state[1].timestamp
  /\ ecs.player.lastProcessedInput = step.state[1].inputNum
  /\ ecs.player.lastUpdateTime = step.state[1].timestamp
  /\ step.after.position # zero

====
